---- MODULE Spec2Model ----
(***************************************************************************)
(* Model of core/data_handler.py (class DataHandler): one handle that      *)
(* opens ENVI / EMIT / AVIRIS-3 cubes, its bad-band list and data-ignore   *)
(* value, and the read-modify-write of the ENVI header sidecar.            *)
(*                                                                         *)
(* A header file is its text: a sequence of tokens, "\n" ending a line.    *)
(* Tokens hold no white space; a key of several words ("data type") is one *)
(* token.  Python's None is the empty sequence, a value x is <<x>>.        *)
(***************************************************************************)
EXTENDS Integers, Sequences, FiniteSets, TLC

None == <<>>
Some(x) == <<x>>

NL == "\n"

(***************************************************************************)
(* Text helpers: str(), int(), float(), str.startswith, readlines.         *)
(***************************************************************************)

\* int(token) / str(int): the integer literals that occur in the headers.
IntTable ==
    { <<"-1", -1>>, <<"0", 0>>, <<"1", 1>>, <<"2", 2>>, <<"3", 3>>, <<"4", 4>> }

IsIntTok(t) == \E p \in IntTable : p[1] = t
IntOfTok(t) == (CHOOSE p \in IntTable : p[1] = t)[2]
StrOfInt(i) == (CHOOSE p \in IntTable : p[2] = i)[1]

\* float(token) and f'{value}' of a float: -9999.0 and 0.0 are the values used.
FloatTable == { <<"-9999.0", -9999>>, <<"0.0", 0>> }

IsFloatTok(t) == (\E p \in FloatTable : p[1] = t) \/ IsIntTok(t)
FloatOfTok(t) ==
    IF \E p \in FloatTable : p[1] = t
    THEN (CHOOSE p \in FloatTable : p[1] = t)[2]
    ELSE IntOfTok(t)
StrOfFloat(v) == (CHOOSE p \in FloatTable : p[2] = v)[1]

\* The prefixes the code tests with str.startswith, and the tokens that begin
\* with each of them.
PrefixTable ==
    { <<"bbl", "bbl">>, <<"bbl_source", "bbl">>,
      <<"bands", "bands">>, <<"lines", "lines">>, <<"samples", "samples">>,
      <<"data type", "data type">>, <<"wavelength", "wavelength">>,
      <<"fwhm", "fwhm">>, <<"interleave", "interleave">>,
      <<"data ignore value", "data ignore value">>,
      <<"data_ignore_value", "data_ignore_value">> }

\* line.strip(): the tokens of the line without its line end.
Strip(line) == SelectSeq(line, LAMBDA t : t # NL)

\* line.strip().lower().startswith(p) for some p of prefixes
LineStartsWith(line, prefixes) ==
    /\ Strip(line) # <<>>
    /\ \E p \in prefixes : <<Head(Strip(line)), p>> \in PrefixTable

RECURSIVE SplitLines(_, _, _)
SplitLines(text, cur, acc) ==
    IF text = <<>>
    THEN IF cur = <<>> THEN acc ELSE Append(acc, cur)
    ELSE IF Head(text) = NL
         THEN SplitLines(Tail(text), <<>>, Append(acc, Append(cur, NL)))
         ELSE SplitLines(Tail(text), Append(cur, Head(text)), acc)

\* f.readlines(): every line keeps its "\n"; the last one may have none.
ReadLines(text) == SplitLines(text, <<>>, <<>>)

RECURSIVE Concat(_)
Concat(lines) ==
    IF lines = <<>> THEN <<>> ELSE Head(lines) \o Concat(Tail(lines))

\* f.writelines(lines): the lines one after the other, nothing added.
WriteLines(lines) == Concat(lines)

\* list.insert(idx, x)
InsertAt(s, idx, x) ==
    SubSeq(s, 1, idx) \o <<x>> \o SubSeq(s, idx + 1, Len(s))

Max(a, b) == IF a >= b THEN a ELSE b

(***************************************************************************)
(* The ENVI header reader behind envi.open (spectral.io.envi): the first   *)
(* line is "ENVI"; every later line with a "=" is key = value; a value     *)
(* that begins with "{" runs on over the next lines until one ends with    *)
(* "}" and is split at the commas; a line without "=" is skipped.  The     *)
(* dict is a function from keys (token sequences) to values                *)
(* [list, items]: a scalar has one item, its tokens.                       *)
(***************************************************************************)

RECURSIVE FirstEq(_, _)
FirstEq(line, i) ==
    IF i > Len(line) THEN 0
    ELSE IF line[i] = "=" THEN i ELSE FirstEq(line, i + 1)

\* str.split(',') with every piece stripped
RECURSIVE SplitComma(_, _, _)
SplitComma(toks, cur, acc) ==
    IF toks = <<>> THEN Append(acc, cur)
    ELSE IF Head(toks) = ","
         THEN SplitComma(Tail(toks), <<>>, Append(acc, cur))
         ELSE SplitComma(Tail(toks), Append(cur, Head(toks)), acc)

\* while str[-1] != '}': str += next line; running out of lines raises
RECURSIVE GatherBrace(_, _)
GatherBrace(str, lines) ==
    IF str[Len(str)] = "}" THEN [ok |-> TRUE, str |-> str, rest |-> lines]
    ELSE IF lines = <<>> THEN [ok |-> FALSE, str |-> str, rest |-> lines]
    ELSE GatherBrace(str \o Strip(Head(lines)), Tail(lines))

Scalar(toks) == [list |-> FALSE, items |-> <<toks>>]
List(items) == [list |-> TRUE, items |-> items]

RECURSIVE ParseLines(_, _)
ParseLines(lines, d) ==
    IF lines = <<>> THEN [ok |-> TRUE, d |-> d]
    ELSE LET line == Head(lines)
             rest == Tail(lines)
             eq   == FirstEq(line, 1)
         IN  IF eq = 0 THEN ParseLines(rest, d)
             ELSE LET key == Strip(SubSeq(line, 1, eq - 1))
                      val == Strip(SubSeq(line, eq + 1, Len(line)))
                  IN  IF val # <<>> /\ val[1] = "{"
                      THEN LET g == GatherBrace(val, rest)
                           IN  IF ~g.ok THEN [ok |-> FALSE, d |-> d]
                               ELSE ParseLines(g.rest,
                                      (key :> List(SplitComma(
                                          SubSeq(g.str, 2, Len(g.str) - 1),
                                          <<>>, <<>>))) @@ d)
                      ELSE ParseLines(rest, (key :> Scalar(val)) @@ d)

\* read_envi_header
ReadEnviHeader(text) ==
    LET lines == ReadLines(text)
    IN  IF lines = <<>> \/ Strip(Head(lines)) = <<>>
           \/ Head(Strip(Head(lines))) # "ENVI"
        THEN [ok |-> FALSE, d |-> <<>>]
        ELSE ParseLines(Tail(lines), <<>>)

HasKey(d, k) == <<k>> \in DOMAIN d

\* the value of key k is one integer literal, so int(h[k]) succeeds
IntField(d, k) ==
    /\ HasKey(d, k)
    /\ ~d[<<k>>].list
    /\ Len(d[<<k>>].items[1]) = 1
    /\ IsIntTok(d[<<k>>].items[1][1])

FieldInt(d, k) == IntOfTok(d[<<k>>].items[1][1])

\* the ENVI data type codes of envi_to_dtype
EnviDTypes == {"1", "2", "3", "4", "5", "6", "9", "12", "13", "14", "15"}

\* envi.open(header, data): the SpyFile, or an exception (ok = FALSE).  The
\* SpyFile carries the parsed metadata and the shape (lines, samples, bands).
EnviOpen(text) ==
    LET r == ReadEnviHeader(text)
        d == r.d
    IN  IF /\ r.ok
           /\ IntField(d, "bands") /\ IntField(d, "lines")
           /\ IntField(d, "samples") /\ IntField(d, "byte order")
           /\ HasKey(d, "data type") /\ ~d[<<"data type">>].list
           /\ Len(d[<<"data type">>].items[1]) = 1
           /\ d[<<"data type">>].items[1][1] \in EnviDTypes
           /\ HasKey(d, "interleave")
        THEN [ok |-> TRUE, metadata |-> d,
              shape |-> <<FieldInt(d, "lines"), FieldInt(d, "samples"),
                          FieldInt(d, "bands")>>,
              dtype |-> d[<<"data type">>].items[1][1]]
        ELSE [ok |-> FALSE, metadata |-> <<>>, shape |-> <<>>, dtype |-> ""]

(***************************************************************************)
(* DataHandler: the handle's fields after __init__.                        *)
(***************************************************************************)
NewDataHandler ==
    [ spy_file          |-> None,   \* the ENVI file the SpyFile was opened on
      nc_dataset        |-> None,   \* the NetCDF file of the open container
      data              |-> None,   \* [file, kind]: whose cube, held how
      header            |-> <<>>,
      wavelengths       |-> None,
      shape             |-> None,   \* <<rows, cols, bands>>
      interleave        |-> None,
      data_type         |-> None,
      filename          |-> None,
      header_filename   |-> None,
      is_loaded         |-> FALSE,
      use_memmap        |-> TRUE,
      file_type         |-> None,
      bad_band_list     |-> None,
      data_ignore_value |-> None ]

Bands(h) == h.shape[1][3]

\* every item is one integer literal: np.array(items, dtype=np.int32) succeeds
AllIntItems(items) ==
    \A i \in 1..Len(items) : Len(items[i]) = 1 /\ IsIntTok(items[i][1])

IntsOfItems(items) == [i \in 1..Len(items) |-> IntOfTok(items[i][1])]

\* str.strip('{}[] '): braces off both ends
RECURSIVE StripBraces(_)
StripBraces(toks) ==
    IF toks = <<>> THEN toks
    ELSE IF Head(toks) \in {"{", "}", "[", "]"} THEN StripBraces(Tail(toks))
    ELSE IF toks[Len(toks)] \in {"{", "}", "[", "]"}
         THEN StripBraces(SubSeq(toks, 1, Len(toks) - 1))
         ELSE toks

\* _load_bad_band_list_from_header.  A header without a bbl key (or with an
\* empty value) leaves bad_band_list as it was; a value that does not convert
\* raises, and the except branch sets None.
LoadBadBandListFromHeader(h) ==
    IF h.header = <<>> THEN h
    ELSE IF ~HasKey(h.header, "bbl") THEN h
    ELSE LET v == h.header[<<"bbl">>]
             truthy == v.list \/ v.items[1] # <<>>
             pieces == IF v.list THEN v.items
                       ELSE SplitComma(StripBraces(v.items[1]), <<>>, <<>>)
             \* the branch that assigns: a list always, a string when not empty
             assigns == v.list \/ StripBraces(v.items[1]) # <<>>
         IN  IF ~truthy THEN h
             ELSE IF assigns /\ ~AllIntItems(pieces)
                  THEN [h EXCEPT !.bad_band_list = None]
             ELSE LET bbl == IF assigns THEN Some(IntsOfItems(pieces))
                             ELSE h.bad_band_list
                  IN  IF bbl # None /\ Len(bbl[1]) # Bands(h)
                      THEN [h EXCEPT !.bad_band_list = None]
                      ELSE [h EXCEPT !.bad_band_list = bbl]

\* the first of the three spellings of the key that the header holds
IgnoreKeys == <<"data ignore value", "data_ignore_value", "ignore_value">>

IgnoreKeyOf(d) ==
    IF HasKey(d, IgnoreKeys[1]) THEN Some(IgnoreKeys[1])
    ELSE IF HasKey(d, IgnoreKeys[2]) THEN Some(IgnoreKeys[2])
    ELSE IF HasKey(d, IgnoreKeys[3]) THEN Some(IgnoreKeys[3])
    ELSE None

\* _load_data_ignore_value_from_header.  No key: the value stays as it was.
LoadDataIgnoreValueFromHeader(h) ==
    IF h.header = <<>> THEN h
    ELSE IF IgnoreKeyOf(h.header) = None THEN h
    ELSE LET v == h.header[<<IgnoreKeyOf(h.header)[1]>>]
         IN  IF v.list THEN [h EXCEPT !.data_ignore_value = None]
             ELSE IF v.items[1] = <<>> \/ v.items[1] \in {<<"none">>, <<"null">>}
                  THEN [h EXCEPT !.data_ignore_value = None]
             ELSE IF Len(v.items[1]) = 1 /\ IsFloatTok(v.items[1][1])
                  THEN [h EXCEPT !.data_ignore_value =
                                     Some(FloatOfTok(v.items[1][1]))]
                  ELSE [h EXCEPT !.data_ignore_value = None]

(***************************************************************************)
(* The header rewrite.  A header file is [exists, writable, text].  io is  *)
(* what the operating system does to this call: "ok", "read_error" (the    *)
(* read raises), "write_error" (open(path, 'w') has emptied the file and   *)
(* the write raises after k lines).  The result is the value returned, the *)
(* handle and the file afterwards.                                         *)
(***************************************************************************)

\* ', '.join(map(str, bad_band_list))
RECURSIVE JoinInts(_)
JoinInts(bbl) ==
    IF bbl = <<>> THEN <<>>
    ELSE IF Len(bbl) = 1 THEN <<StrOfInt(bbl[1])>>
    ELSE <<StrOfInt(bbl[1]), ",">> \o JoinInts(Tail(bbl))

BblLine(bbl) == <<"bbl", "=", "{">> \o JoinInts(bbl) \o <<"}", NL>>

\* insert_idx = len(lines); for i, line: if line starts with one of prefixes:
\* insert_idx = max(insert_idx, i + 1)
RECURSIVE InsertIdx(_, _, _, _)
InsertIdx(lines, prefixes, i, idx) ==
    IF i > Len(lines) THEN idx
    ELSE InsertIdx(lines, prefixes, i + 1,
                   IF LineStartsWith(lines[i], prefixes) THEN Max(idx, i) ELSE idx)

\* the lines written for the bad band list: lines 907-925
BblRewrite(header_lines, bbl) ==
    LET filtered == SelectSeq(header_lines,
                              LAMBDA l : ~LineStartsWith(l, {"bbl"}))
    IN  IF bbl # None
        THEN InsertAt(filtered,
                      InsertIdx(filtered, {"wavelength", "fwhm", "bands"},
                                1, Len(filtered)),
                      BblLine(bbl[1]))
        ELSE filtered

IgnoreLine(v) == <<"data ignore value", "=", StrOfFloat(v), NL>>

\* the lines written for the data ignore value: lines 957-975
IgnoreRewrite(header_lines, v) ==
    LET filtered == SelectSeq(header_lines,
                       LAMBDA l : ~LineStartsWith(l,
                                     {"data ignore value", "data_ignore_value"}))
    IN  IF v # None
        THEN InsertAt(filtered,
                      InsertIdx(filtered,
                                {"data type", "bands", "lines", "samples"},
                                1, Len(filtered)),
                      IgnoreLine(v[1]))
        ELSE filtered

\* dict without key k
DelKey(d, k) == [x \in (DOMAIN d) \ {<<k>>} |-> d[x]]

\* self.header['bbl'] = bad_band_list.tolist(), or del self.header['bbl']
HeaderWithBbl(d, bbl) ==
    IF bbl # None
    THEN (<<"bbl">> :> List([i \in 1..Len(bbl[1]) |-> <<StrOfInt(bbl[1][i])>>])) @@ d
    ELSE DelKey(d, "bbl")

HeaderWithIgnore(d, v) ==
    IF v # None
    THEN (<<"data ignore value">> :> Scalar(<<StrOfFloat(v[1])>>)) @@ d
    ELSE IF IgnoreKeyOf(d) = None THEN d ELSE DelKey(d, IgnoreKeyOf(d)[1])

\* with open(path, 'w') as f: f.writelines(lines), under io
WriteHeader(file, lines, io) ==
    IF io.kind = "ok" THEN [file EXCEPT !.text = WriteLines(lines)]
    ELSE [file EXCEPT !.text =
            WriteLines(SubSeq(lines, 1, IF io.k < Len(lines) THEN io.k
                                        ELSE Len(lines)))]

\* _save_bad_band_list_to_header
SaveBadBandListToHeader(h, files, io) ==
    LET unchanged == [ret |-> FALSE, h |-> h, files |-> files]
    IN  IF h.header_filename = None THEN unchanged
        ELSE LET f == h.header_filename[1]
             IN  IF ~files[f].exists THEN unchanged
                 ELSE IF ~files[f].writable THEN unchanged
                 ELSE IF io.kind = "read_error" THEN unchanged
                 ELSE LET lines == BblRewrite(ReadLines(files[f].text),
                                              h.bad_band_list)
                          files2 == [files EXCEPT
                                       ![f] = WriteHeader(files[f], lines, io)]
                      IN  IF io.kind = "write_error"
                          THEN [ret |-> FALSE, h |-> h, files |-> files2]
                          ELSE [ret |-> TRUE,
                                h |-> [h EXCEPT !.header =
                                         HeaderWithBbl(h.header, h.bad_band_list)],
                                files |-> files2]

\* _save_data_ignore_value_to_header: no os.access test; opening a read-only
\* file for writing raises before the file is emptied
SaveDataIgnoreValueToHeader(h, files, io) ==
    LET unchanged == [ret |-> FALSE, h |-> h, files |-> files]
    IN  IF h.header_filename = None THEN unchanged
        ELSE LET f == h.header_filename[1]
             IN  IF ~files[f].exists THEN unchanged
                 ELSE IF io.kind = "read_error" THEN unchanged
                 ELSE IF ~files[f].writable THEN unchanged
                 ELSE LET lines == IgnoreRewrite(ReadLines(files[f].text),
                                                 h.data_ignore_value)
                          files2 == [files EXCEPT
                                       ![f] = WriteHeader(files[f], lines, io)]
                      IN  IF io.kind = "write_error"
                          THEN [ret |-> FALSE, h |-> h, files |-> files2]
                          ELSE [ret |-> TRUE,
                                h |-> [h EXCEPT !.header =
                                         HeaderWithIgnore(h.header,
                                                          h.data_ignore_value)],
                                files |-> files2]

\* np.array(x, dtype=np.int32) of one entry n/d: the fraction is cut off
AsInt32(e) ==
    IF e[1] >= 0 THEN e[1] \div e[2] ELSE -((-e[1]) \div e[2])

\* set_bad_band_list.  mask is None or Some(sequence of entries <<n, d>>).
SetBadBandList(h, files, mask, io) ==
    IF ~h.is_loaded \/ h.file_type # Some("envi")
    THEN [ret |-> FALSE, h |-> h, files |-> files]
    ELSE IF mask = None
         THEN SaveBadBandListToHeader([h EXCEPT !.bad_band_list = None],
                                      files, io)
    ELSE LET arr == [i \in 1..Len(mask[1]) |-> AsInt32(mask[1][i])]
         IN  IF Len(arr) # Bands(h)
             THEN [ret |-> FALSE, h |-> h, files |-> files]
             ELSE IF ~(\A i \in 1..Len(arr) : arr[i] = 0 \/ arr[i] = 1)
                  THEN [ret |-> FALSE, h |-> h, files |-> files]
             ELSE SaveBadBandListToHeader(
                      [h EXCEPT !.bad_band_list = Some(arr)], files, io)

\* set_data_ignore_value
SetDataIgnoreValue(h, files, v, io) ==
    IF ~h.is_loaded \/ h.file_type # Some("envi")
    THEN [ret |-> FALSE, h |-> h, files |-> files]
    ELSE SaveDataIgnoreValueToHeader([h EXCEPT !.data_ignore_value = v],
                                     files, io)

(***************************************************************************)
(* The files.  An ENVI data file is complete or cut short (reading it      *)
(* raises); a NetCDF file holds a 3-D variable that can be read or not.    *)
(***************************************************************************)
EnviFiles == {"a.bsq", "c.bsq"}
EmitFiles == {"EMIT_1.nc", "EMIT_2.nc"}
Aviris3Files == {"AV3_1.nc"}
AllFiles == EnviFiles \cup EmitFiles \cup Aviris3Files

\* _is_emit_file / _is_aviris3_file: suffix .nc and EMIT / AV3 in the name
IsEmitFile(f) == f \in EmitFiles
IsAviris3File(f) == f \in Aviris3Files

\* the data file is as long as its header says
DataComplete(f) == f # "c.bsq"
\* reading the NetCDF variable into an array succeeds
NcReadable(f) == f # "EMIT_2.nc"
\* the cube of a NetCDF file, after the transpose: <<rows, cols, bands>>
NcShape(f) == IF f \in EmitFiles THEN <<1, 2, 2>> ELSE <<1, 2, 3>>

\* spy_file.interleave
InterleaveOf(d) ==
    LET v == d[<<"interleave">>].items[1]
    IN  IF v \in {<<"bil">>, <<"BIL">>} THEN "bil"
        ELSE IF v \in {<<"bip">>, <<"BIP">>} THEN "bip" ELSE "bsq"

\* np.array(spy_file.bands.centers): the header's wavelengths; centers is
\* None when the header has no wavelength list
EnviWavelengths(d) ==
    IF HasKey(d, "wavelength") /\ d[<<"wavelength">>].list
    THEN [kind |-> "centers", v |-> d[<<"wavelength">>].items]
    ELSE [kind |-> "none", v |-> <<>>]

\* _load_envi_data_original.  The fields are assigned one by one; an
\* exception leaves those already assigned and returns False.
LoadEnviDataOriginal(h, files, f, load_to_ram) ==
    IF ~files[f].exists THEN [ret |-> FALSE, h |-> h]
    ELSE LET spy == EnviOpen(files[f].text)
         IN  IF ~spy.ok THEN [ret |-> FALSE, h |-> h]
             ELSE LET h1 == [h EXCEPT !.spy_file = Some(f),
                                      !.filename = Some(f),
                                      !.header_filename = Some(f),
                                      !.file_type = Some("envi"),
                                      !.header = spy.metadata,
                                      !.shape = Some(spy.shape),
                                      !.interleave = Some(InterleaveOf(spy.metadata)),
                                      !.data_type = Some(spy.dtype),
                                      !.wavelengths = Some(EnviWavelengths(spy.metadata))]
                      h2 == LoadDataIgnoreValueFromHeader(
                                LoadBadBandListFromHeader(h1))
                      h3 == [h2 EXCEPT !.use_memmap = ~load_to_ram]
                  IN  IF ~DataComplete(f) THEN [ret |-> FALSE, h |-> h3]
                      ELSE [ret |-> TRUE,
                            h |-> [h3 EXCEPT
                                     !.data = Some([file |-> f,
                                                    kind |-> IF load_to_ram
                                                             THEN "ImageArray"
                                                             ELSE "memmap",
                                                    range_masked |-> FALSE]),
                                     !.is_loaded = TRUE]]

\* the header dict the NetCDF loaders build
NcHeader(shape, sensor) ==
    [k \in { <<"lines">>, <<"samples">>, <<"bands">>, <<"data_type">>,
             <<"interleave">>, <<"wavelength_units">>, <<"sensor_type">> } |->
        IF k = <<"lines">> THEN Scalar(<<StrOfInt(shape[1])>>)
        ELSE IF k = <<"samples">> THEN Scalar(<<StrOfInt(shape[2])>>)
        ELSE IF k = <<"bands">> THEN Scalar(<<StrOfInt(shape[3])>>)
        ELSE IF k = <<"data_type">> THEN Scalar(<<"4">>)
        ELSE IF k = <<"interleave">> THEN Scalar(<<"bsq">>)
        ELSE IF k = <<"wavelength_units">> THEN Scalar(<<"nm">>)
        ELSE Scalar(<<sensor>>)]

\* _extract_emit_spatial_metadata / _extract_aviris3_spatial_metadata: read
\* from the container nc_dataset refers to, if any
WithSpatialMetadata(h) ==
    IF h.nc_dataset = None THEN h
    ELSE [h EXCEPT !.header =
            (<<"spatial_units">> :> Scalar(<<h.nc_dataset[1]>>)) @@ h.header]

\* the assignments after the array is read (lines 298-332 and 450-484)
NcStore(h, f, load_to_ram, ftype, sensor, range_masked) ==
    WithSpatialMetadata(
        [h EXCEPT !.data = Some([file |-> f, kind |-> "masked",
                                 range_masked |-> range_masked]),
                  !.wavelengths = Some([kind |-> "file", v |-> <<>>]),
                  !.filename = Some(f),
                  !.file_type = Some(ftype),
                  !.shape = Some(NcShape(f)),
                  !.interleave = Some("bsq"),
                  !.data_type = Some("4"),
                  !.use_memmap = ~load_to_ram,
                  !.header = NcHeader(NcShape(f), sensor),
                  !.is_loaded = TRUE])

\* _load_emit_data.  Without load_to_ram the container is opened into
\* nc_dataset before the variable is read.  _handle_emit_fill_values masks
\* the range [0, 1] when file_type is 'emit', and file_type is assigned
\* after it ran.
LoadEmitData(h, f, load_to_ram) ==
    IF load_to_ram
    THEN IF ~NcReadable(f) THEN [ret |-> FALSE, h |-> h]
         ELSE [ret |-> TRUE,
               h |-> NcStore(h, f, load_to_ram, "emit", "EMIT",
                             h.file_type = Some("emit"))]
    ELSE LET h1 == [h EXCEPT !.nc_dataset = Some(f)]
         IN  IF ~NcReadable(f) THEN [ret |-> FALSE, h |-> h1]
             ELSE [ret |-> TRUE,
                   h |-> NcStore(h1, f, load_to_ram, "emit", "EMIT",
                                 h.file_type = Some("emit"))]

\* _load_aviris3_data
LoadAviris3Data(h, f, load_to_ram) ==
    IF load_to_ram
    THEN IF ~NcReadable(f) THEN [ret |-> FALSE, h |-> h]
         ELSE [ret |-> TRUE,
               h |-> NcStore(h, f, load_to_ram, "aviris3", "AVIRIS-3", TRUE)]
    ELSE LET h1 == [h EXCEPT !.nc_dataset = Some(f)]
         IN  IF ~NcReadable(f) THEN [ret |-> FALSE, h |-> h1]
             ELSE [ret |-> TRUE,
                   h |-> NcStore(h1, f, load_to_ram, "aviris3", "AVIRIS-3", TRUE)]

\* load_envi_data: the dispatch on the file name
LoadEnviData(h, files, f, load_to_ram) ==
    IF IsEmitFile(f) THEN LoadEmitData(h, f, load_to_ram)
    ELSE IF IsAviris3File(f) THEN LoadAviris3Data(h, f, load_to_ram)
    ELSE LoadEnviDataOriginal(h, files, f, load_to_ram)

\* reload_from_header
ReloadFromHeader(h, files) ==
    IF ~h.is_loaded \/ h.file_type # Some("envi") THEN [ret |-> FALSE, h |-> h]
    ELSE IF h.filename = None THEN [ret |-> FALSE, h |-> h]
    ELSE LoadEnviData(h, files, h.filename[1], ~h.use_memmap)

\* a cleanup that drops the references and keeps is_loaded
CleanupKeepsLoaded(h) ==
    [h EXCEPT !.nc_dataset = None, !.data = None, !.spy_file = None]

\* cleanup
Cleanup(h) ==
    [h EXCEPT !.nc_dataset = None, !.is_loaded = FALSE,
              !.data = None, !.spy_file = None]

(***************************************************************************)
(* The reads.  A result is None or what the array returned is a view of:   *)
(* the file whose cube it comes from and the part of the cube.             *)
(***************************************************************************)

\* get_band_data
GetBandData(h, band_index) ==
    IF ~h.is_loaded THEN None
    ELSE IF band_index < 0 \/ band_index >= Bands(h) THEN None
    ELSE IF h.use_memmap /\ h.data # None
         THEN Some([file |-> h.data[1].file, part |-> <<"band", band_index>>])
    ELSE IF h.spy_file = None THEN None
         ELSE Some([file |-> h.spy_file[1], part |-> <<"band", band_index>>])

\* get_pixel_spectrum with x checked against the rows and y against the
\* columns
GetPixelSpectrumSwapped(h, x, y) ==
    IF ~h.is_loaded THEN None
    ELSE IF x < 0 \/ x >= h.shape[1][1] \/ y < 0 \/ y >= h.shape[1][2] THEN None
    ELSE IF h.data = None THEN None
    ELSE Some([file |-> h.data[1].file, part |-> <<"pixel", y, x>>])

\* get_pixel_spectrum
GetPixelSpectrum(h, x, y) ==
    IF ~h.is_loaded THEN None
    ELSE IF x < 0 \/ x >= h.shape[1][2] \/ y < 0 \/ y >= h.shape[1][1] THEN None
    ELSE IF h.file_type \in {Some("emit"), Some("aviris3")}
         THEN IF h.data = None THEN None
              ELSE Some([file |-> h.data[1].file, part |-> <<"pixel", y, x>>])
    ELSE IF h.file_type = Some("envi")
         THEN IF h.use_memmap /\ h.data # None
              THEN Some([file |-> h.data[1].file, part |-> <<"pixel", y, x>>])
              ELSE IF h.spy_file = None THEN None
                   ELSE Some([file |-> h.spy_file[1], part |-> <<"pixel", y, x>>])
    ELSE None

\* extract_line_spectra
ExtractLineSpectra(h, line_index) ==
    IF ~h.is_loaded THEN None
    ELSE IF line_index < 0 \/ line_index >= h.shape[1][1] THEN None
    ELSE IF h.file_type \in {Some("emit"), Some("aviris3")}
         THEN IF h.data = None THEN None
              ELSE Some([file |-> h.data[1].file, part |-> <<"line", line_index>>])
    ELSE IF h.file_type = Some("envi")
         THEN IF h.use_memmap /\ h.data # None
              THEN Some([file |-> h.data[1].file, part |-> <<"line", line_index>>])
              \* read pixel by pixel; a pixel that fails is NaN, the array is returned
              ELSE Some([file |-> IF h.spy_file = None THEN "nan" ELSE h.spy_file[1],
                         part |-> <<"line", line_index>>])
    ELSE None

\* min(max(band, 0), max_bands - 1)
ClampBand(b, max_bands) ==
    IF b < 0 THEN 0 ELSE IF b > max_bands - 1 THEN max_bands - 1 ELSE b

\* get_rgb_composite with the three bands given
GetRgbComposite(h, r, g, b) ==
    IF ~h.is_loaded THEN None
    ELSE LET rgb == <<ClampBand(r, Bands(h)), ClampBand(g, Bands(h)),
                      ClampBand(b, Bands(h))>>
         IN  IF h.file_type \in {Some("emit"), Some("aviris3")}
             THEN IF h.data = None THEN None
                  ELSE Some([file |-> h.data[1].file, part |-> <<"rgb">> \o rgb])
             ELSE IF h.file_type = Some("envi")
                  THEN IF h.use_memmap /\ h.data # None
                       THEN Some([file |-> h.data[1].file, part |-> <<"rgb">> \o rgb])
                       ELSE IF h.spy_file = None THEN None
                            ELSE Some([file |-> h.spy_file[1],
                                       part |-> <<"rgb">> \o rgb])
             ELSE None

\* get_info: the empty dict, or the description of the dataset
GetInfo(h) ==
    IF ~h.is_loaded THEN None
    ELSE Some([filename |-> h.filename, file_format |-> h.file_type,
               shape |-> h.shape, interleave |-> h.interleave,
               use_memmap |-> h.use_memmap])

(***************************************************************************)
(* The state machine: one handle, the header files, and the environment.   *)
(***************************************************************************)
VARIABLES
    dh,        \* the DataHandler
    files,     \* the header file of every ENVI file: [exists, writable, text]
    stopped,   \* None while the process runs; the rewrite it stopped in
    cleaned,   \* cleanup() was called on the handle
    reopened,  \* a load_envi_data returned True after the last cleanup()
    call,      \* the last call of a function of the cube's values
    ret,       \* what that call returned
    datasets,        \* DataManager.datasets: <<name, handler>> in insertion order
    metadata,        \* DataManager.metadata: <<name, type>> in insertion order
    active_dataset,  \* DataManager.active_dataset
    handlers,        \* how many DataHandler objects were made for the registry
    derived          \* None, or <<name returned, handler made>> of the
                     \* create_derived that just ran

\* the DataManager
registry == <<datasets, metadata, active_dataset, handlers, derived>>

vars == <<dh, files, stopped, cleaned, reopened, call, ret, registry>>

\* no call of a function of the cube's values was made; a call is the name
\* of the function and the tuple of its inputs
NoCall == <<"none", <<>>>>

\* How many lines of a header a write that fails, or a process that stops,
\* may leave behind (0: the file emptied by open(path, 'w')).
MaxPartial == 1

BaseHeader(bands) ==
    << "ENVI", NL, "samples", "=", "2", NL, "lines", "=", "1", NL,
       "bands", "=", bands, NL, "data type", "=", "4", NL,
       "interleave", "=", "bsq", NL, "byte order", "=", "0", NL >>

\* the headers a.bsq may start with: no bbl; a bbl on one line; a bbl over
\* two lines; no line end after the last line; a key that begins with bbl;
\* a bbl of the wrong length; a data ignore value
HeaderVariants ==
    { BaseHeader("2"),
      BaseHeader("2") \o <<"bbl", "=", "{", "1", ",", "0", "}", NL>>,
      BaseHeader("2") \o <<"bbl", "=", "{", "1", ",", NL, "0", "}", NL>>,
      SubSeq(BaseHeader("2"), 1, Len(BaseHeader("2")) - 1),
      BaseHeader("2") \o <<"bbl_source", "=", "manual", NL>>,
      BaseHeader("2") \o <<"bbl", "=", "{", "1", "}", NL>>,
      BaseHeader("2") \o <<"data ignore value", "=", "-9999.0", NL>> }

HeaderFile(text) == [exists |-> TRUE, writable |-> TRUE, text |-> text]

\* c.bsq: three bands, a bad band list, a data ignore value; its data file
\* is cut short
HeaderOfC ==
    BaseHeader("3") \o <<"bbl", "=", "{", "1", ",", "1", ",", "0", "}", NL,
                         "data ignore value", "=", "-9999.0", NL>>

InitWith(variants) ==
    /\ dh = NewDataHandler
    /\ \E t \in variants :
          files = [f \in EnviFiles |->
                     IF f = "a.bsq" THEN HeaderFile(t) ELSE HeaderFile(HeaderOfC)]
    /\ stopped = None
    /\ cleaned = FALSE
    /\ reopened = FALSE
    /\ call = NoCall
    /\ ret = None
    /\ datasets = <<>>
    /\ metadata = <<>>
    /\ active_dataset = None
    /\ handlers = 0
    /\ derived = None

\* the masks set_bad_band_list is called with: entries n/d
One == <<1, 1>>
Zero == <<0, 1>>
MaskInputs ==
    { None,
      Some(<<Zero, One>>),
      Some(<<One>>), Some(<<<<2, 1>>, Zero>>), Some(<<<<1, 2>>, One>>) }

IgnoreInputs == { None, Some(-9999) }

\* the calls made with the operating system doing nothing unusual
IoOk == [kind |-> "ok", k |-> 0]

IoOutcomes ==
    { IoOk, [kind |-> "read_error", k |-> 0] }
    \cup { [kind |-> "write_error", k |-> k] : k \in 0..MaxPartial }

DoLoadEnviData(f, load_to_ram) ==
    /\ stopped = None
    /\ LET r == LoadEnviData(dh, files, f, load_to_ram)
       IN  /\ dh' = r.h
           /\ reopened' = IF r.ret THEN cleaned ELSE reopened
    /\ UNCHANGED <<files, stopped, cleaned, call, ret, registry>>

DoReloadFromHeader ==
    /\ stopped = None
    /\ LET r == ReloadFromHeader(dh, files)
       IN  /\ dh' = r.h
           /\ reopened' = IF r.ret THEN cleaned ELSE reopened
    /\ UNCHANGED <<files, stopped, cleaned, call, ret, registry>>

DoSetBadBandList(mask, io) ==
    /\ stopped = None
    /\ LET r == SetBadBandList(dh, files, mask, io)
       IN  /\ dh' = r.h
           /\ files' = r.files
    /\ UNCHANGED <<stopped, cleaned, reopened, call, ret, registry>>

DoSetDataIgnoreValue(v, io) ==
    /\ stopped = None
    /\ LET r == SetDataIgnoreValue(dh, files, v, io)
       IN  /\ dh' = r.h
           /\ files' = r.files
    /\ UNCHANGED <<stopped, cleaned, reopened, call, ret, registry>>

DoCleanup ==
    /\ stopped = None
    /\ dh' = Cleanup(dh)
    /\ cleaned' = TRUE
    /\ reopened' = FALSE
    /\ UNCHANGED <<files, stopped, call, ret, registry>>

\* The process stops inside a header rewrite, after open(path, 'w') and k
\* lines: the file holds what was written so far.  stopped keeps the text
\* before the call and the text the call was writing.
StoppedIn(partial, full) ==
    /\ stopped = None
    /\ full.ret
    /\ files' = partial.files
    /\ stopped' = Some([old |-> files[dh.header_filename[1]].text,
                        new |-> full.files[dh.header_filename[1]].text])
    /\ UNCHANGED <<dh, cleaned, reopened, call, ret, registry>>

StopInBblRewrite(mask, k) ==
    StoppedIn(SetBadBandList(dh, files, mask, [kind |-> "write_error", k |-> k]),
              SetBadBandList(dh, files, mask, IoOk))

StopInIgnoreRewrite(v, k) ==
    StoppedIn(SetDataIgnoreValue(dh, files, v, [kind |-> "write_error", k |-> k]),
              SetDataIgnoreValue(dh, files, v, IoOk))

\* the environment: chmod of a header file, and its removal
Chmod(f) ==
    /\ stopped = None
    /\ files[f].exists
    /\ files' = [files EXCEPT ![f].writable = ~files[f].writable]
    /\ UNCHANGED <<dh, stopped, cleaned, reopened, call, ret, registry>>

Unlink(f) ==
    /\ stopped = None
    /\ files[f].exists
    /\ files' = [files EXCEPT ![f] = [exists |-> FALSE, writable |-> FALSE,
                                      text |-> <<>>]]
    /\ UNCHANGED <<dh, stopped, cleaned, reopened, call, ret, registry>>

\* The handle's life over all the files: loads of every file in both storage
\* modes on the same handle, reload, the two setters, cleanup.
Next ==
    \/ \E f \in AllFiles, ram \in BOOLEAN : DoLoadEnviData(f, ram)
    \/ DoReloadFromHeader
    \/ \E m \in {None, Some(<<Zero, One>>), Some(<<One, Zero, One>>)} :
          DoSetBadBandList(m, IoOk)
    \/ DoSetDataIgnoreValue(Some(0), IoOk)
    \/ DoCleanup

\* a.bsq starts with a bad band list of the right or of the wrong length
LifeVariants ==
    { BaseHeader("2") \o <<"bbl", "=", "{", "1", ",", "0", "}", NL>>,
      BaseHeader("2") \o <<"bbl", "=", "{", "1", "}", NL>> }

Init == InitWith(LifeVariants)

Spec == Init /\ [][Next]_vars

\* The header rewrite of one ENVI file under every mask, every outcome of
\* the operating system and a process that may stop.
NextRewrite ==
    \/ \E ram \in BOOLEAN : DoLoadEnviData("a.bsq", ram)
    \/ DoReloadFromHeader
    \/ \E m \in MaskInputs, io \in IoOutcomes : DoSetBadBandList(m, io)
    \/ \E v \in IgnoreInputs, io \in IoOutcomes : DoSetDataIgnoreValue(v, io)
    \/ \E m \in {None, Some(<<Zero, One>>)}, k \in 0..MaxPartial :
          StopInBblRewrite(m, k)
    \/ \E v \in IgnoreInputs, k \in 0..MaxPartial : StopInIgnoreRewrite(v, k)
    \/ Chmod("a.bsq")
    \/ Unlink("a.bsq")

InitRewrite == InitWith(HeaderVariants)

SpecRewrite == InitRewrite /\ [][NextRewrite]_vars

(***************************************************************************)
(* The values of an ENVI cube.  The logical cube of shape <<rows, cols,    *)
(* bands>> holds CubeValue(r, c, b); its data file holds the values in the *)
(* order of its interleave; envi.open maps the file as an array of the     *)
(* file's axis order and the reads index it.  Indices start at 0.          *)
(***************************************************************************)
MaxRows == 2
MaxCols == 2
MaxBands == 3

Interleaves == {"bsq", "bil", "bip"}
Shapes == { <<r, c, b>> : r \in 1..MaxRows, c \in 1..MaxCols, b \in 1..MaxBands }

\* the value of the logical cube at row r, column c, band b
CubeValue(r, c, b) == 100 * r + 10 * c + b

\* the shape of the file's array: bsq (bands, rows, cols), bil (rows, bands,
\* cols), bip (rows, cols, bands)
RawShape(shape, il) ==
    IF il = "bsq" THEN <<shape[3], shape[1], shape[2]>>
    ELSE IF il = "bil" THEN <<shape[1], shape[3], shape[2]>>
    ELSE shape

\* the element of the cube that the file's array holds at idx
LogicalOf(il, idx) ==
    IF il = "bsq" THEN <<idx[2], idx[3], idx[1]>>
    ELSE IF il = "bil" THEN <<idx[1], idx[3], idx[2]>>
    ELSE idx

\* the data file: the array of RawShape in C order
FileBytes(shape, il) ==
    LET n == RawShape(shape, il)
    IN  [o \in 1..(n[1] * n[2] * n[3]) |->
            LET l == LogicalOf(il, << (o - 1) \div (n[2] * n[3]),
                                      ((o - 1) \div n[3]) % n[2],
                                      (o - 1) % n[3] >>)
            IN  CubeValue(l[1], l[2], l[3])]

\* envi.open(header_file, data_file) of a complete file
SpyFile(shape, il) ==
    [bytes |-> FileBytes(shape, il), shape |-> shape, interleave |-> il]

\* memmap[idx] of the file's array: None when an index is out of its axis
MemmapAt(spy, idx) ==
    LET n == RawShape(spy.shape, spy.interleave)
    IN  IF \A a \in 1..3 : 0 <= idx[a] /\ idx[a] < n[a]
        THEN Some(spy.bytes[idx[1] * n[2] * n[3] + idx[2] * n[3] + idx[3] + 1])
        ELSE None

\* every file read as if it were bip
RawIndexAsBip(il, r, c, b) == <<r, c, b>>

\* where the file's array holds row r, column c, band b: the transpose of
\* open_memmap (to rows, cols, bands) and the slices of read_band, read_pixel
RawIndex(il, r, c, b) ==
    IF il = "bsq" THEN <<b, r, c>>
    ELSE IF il = "bil" THEN <<r, b, c>>
    ELSE <<r, c, b>>

\* self.data[r, c, b] with self.data = spy_file.open_memmap(writable=False)
DataAt(spy, r, c, b) == MemmapAt(spy, RawIndex(spy.interleave, r, c, b))

\* spy_file.read_band(b)[r, c] and spy_file.read_pixel(r, c)[b]
SpyAt(spy, r, c, b) == MemmapAt(spy, RawIndex(spy.interleave, r, c, b))

\* an array of options: None when an element raised, else the values
Values1(s) ==
    IF \E i \in DOMAIN s : s[i] = None THEN None
    ELSE Some([i \in DOMAIN s |-> s[i][1]])

Values2(s) ==
    IF \E i \in DOMAIN s : Values1(s[i]) = None THEN None
    ELSE Some([i \in DOMAIN s |-> Values1(s[i])[1]])

\* get_band_data of a loaded ENVI handle: the values of the plane
GetBandValues(spy, use_memmap, band_index) ==
    IF band_index < 0 \/ band_index >= spy.shape[3] THEN None
    ELSE Values2([r \in 1..spy.shape[1] |-> [c \in 1..spy.shape[2] |->
                    IF use_memmap THEN DataAt(spy, r - 1, c - 1, band_index)
                    ELSE SpyAt(spy, r - 1, c - 1, band_index)]])

\* get_pixel_spectrum of a loaded ENVI handle: the values of the spectrum
GetPixelValues(spy, use_memmap, x, y) ==
    IF x < 0 \/ x >= spy.shape[2] \/ y < 0 \/ y >= spy.shape[1] THEN None
    ELSE Values1([b \in 1..spy.shape[3] |->
                    IF use_memmap THEN DataAt(spy, y, x, b - 1)
                    ELSE SpyAt(spy, y, x, b - 1)])

(***************************************************************************)
(* The elements of an EMIT cube.  data is the record NcStore keeps:        *)
(* range_masked says whether _handle_emit_fill_values masked the range.    *)
(***************************************************************************)

\* the element values tried: the fill value, below 0, 0, 1, above 1
ElementValues == {-9999, -1, 0, 1, 2}

\* _handle_emit_fill_values: the element of value v is masked
EmitMasked(data, v) ==
    \/ v = -9999
    \/ data.range_masked /\ (v < 0 \/ v > 1)

\* an element of what get_pixel_spectrum and extract_line_spectra return for
\* an EMIT cube: spectrum.filled(np.nan), None standing for NaN
EmitElement(h, v) ==
    IF EmitMasked(h.data[1], v) THEN None ELSE Some(v)

(***************************************************************************)
(* _determine_emit_transpose: the axes of a NetCDF variable are classified *)
(* by name and size; the result is the transpose order (None: none) and    *)
(* the warnings printed.                                                   *)
(***************************************************************************)
SpectralNames == {"bands", "wavelength", "spectral"}
SpatialNames == {"downtrack", "crosstrack", "x", "y", "lat", "lon"}

\* the axis names tried, and the sizes
DimNames == {"bands", "downtrack", "crosstrack", "n"}
DimSizes == {10, 224, 300, 1242}

\* <<name, s>>: s in name, for the names tried
ContainsTable ==
    { <<"bands", "bands">>, <<"downtrack", "downtrack">>,
      <<"crosstrack", "crosstrack">> }

\* any(s in dim_name_lower for s in names)
NameHasAny(name, names) == \E s \in names : <<name, s>> \in ContainsTable

\* the classification of one axis
DimType(name, size) ==
    IF NameHasAny(name, SpectralNames) \/ (200 <= size /\ size <= 400)
    THEN "spectral"
    ELSE IF NameHasAny(name, SpatialNames) \/ size >= 50 THEN "spatial"
    ELSE "unknown"

\* the axes classified as spectral, by index from 0
SpectralDims(dimensions, shape) ==
    { i \in 0..2 : DimType(dimensions[i + 1], shape[i + 1]) = "spectral" }

MinOf(S) == CHOOSE i \in S : \A j \in S : i <= j

\* _determine_emit_transpose: <<order, warnings>>
DetermineEmitTranspose(dimensions, shape) ==
    LET spectral_dims  == SpectralDims(dimensions, shape)
        spectral_index == IF spectral_dims = {} THEN 0 ELSE MinOf(spectral_dims)
        warned         == IF spectral_dims = {} THEN {"no spectral dimension"}
                          ELSE {}
    IN  IF spectral_index = 0 THEN <<Some(<<1, 2, 0>>), warned>>
        ELSE IF spectral_index = 2 THEN <<None, warned>>
        ELSE <<Some(<<0, 2, spectral_index>>),
               warned \cup {"unusual position"}>>

\* np.transpose(a, order) seen on the axes: axis i of the result is axis
\* order[i] of a; None leaves the axes as they are
Transposed(axes, order) ==
    IF order = None THEN axes
    ELSE [i \in 1..3 |-> axes[order[1][i] + 1]]

(***************************************************************************)
(* The display stretch.  A band is the sequence of its elements; an        *)
(* element is <<kind, v>>: a number v, NaN, or (EMIT, AVIRIS-3) a masked   *)
(* element whose stored value is v.  Percentiles are kept times 100.       *)
(***************************************************************************)
MaxPixels == 5

Num(v) == <<"num", v>>
NaN == <<"nan", 0>>
Masked(v) == <<"masked", v>>

\* sorted(s) for a sequence of integers
RECURSIVE InsertSorted(_, _)
InsertSorted(s, v) ==
    IF s = <<>> THEN <<v>>
    ELSE IF v <= Head(s) THEN <<v>> \o s
    ELSE <<Head(s)>> \o InsertSorted(Tail(s), v)

RECURSIVE Sorted(_)
Sorted(s) == IF s = <<>> THEN <<>> ELSE InsertSorted(Sorted(Tail(s)), Head(s))

\* 100 * np.percentile(a, q), a sorted and not empty: linear interpolation
\* at position q / 100 * (n - 1)
Percentile100(a, q) ==
    LET pn == q * (Len(a) - 1)
        k  == pn \div 100
    IN  IF pn % 100 = 0 THEN 100 * a[k + 1]
        ELSE 100 * a[k + 1] + (pn % 100) * (a[k + 2] - a[k + 1])

\* red.filled(0): what get_rgb_composite hands to _normalize_for_display
Filled0(band) ==
    [i \in DOMAIN band |-> IF band[i][1] = "masked" THEN Num(0) ELSE band[i]]

\* np.isclose(band, no_data_value) on integers
IsNoData(e, no_data_value) ==
    no_data_value # None /\ e[1] = "num" /\ e[2] = no_data_value[1]

\* valid_data = band[valid_mask]: finite and not the no-data value
ValidData(band, no_data_value) ==
    LET valid == SelectSeq(band, LAMBDA e : e[1] = "num"
                                            /\ ~IsNoData(e, no_data_value))
    IN  [i \in DOMAIN valid |-> valid[i][2]]

\* the stretch without np.clip
StretchUnclipped(v, p2, p98) == (255 * (100 * v - p2)) \div (p98 - p2)

\* (np.clip((v - p2) / (p98 - p2), 0, 1) * 255).astype(np.uint8)
Stretch(v, p2, p98) ==
    IF 100 * v <= p2 THEN 0
    ELSE IF 100 * v >= p98 THEN 255
    ELSE (255 * (100 * v - p2)) \div (p98 - p2)

\* one channel of _normalize_for_display; nan_cast is what astype(np.uint8)
\* makes of NaN; np.percentile raises outside [0, 100] and the except branch
\* takes min and max
NormalizeBand(band, stretch_percent, no_data_value, nan_cast) ==
    LET valid_data == Sorted(ValidData(band, no_data_value))
    IN  IF valid_data = <<>> THEN [i \in DOMAIN band |-> 0]
        ELSE LET fails == stretch_percent \notin 0..100
                 p2  == IF fails THEN 100 * valid_data[1]
                        ELSE Percentile100(valid_data, stretch_percent)
                 p98 == IF fails THEN 100 * valid_data[Len(valid_data)]
                        ELSE Percentile100(valid_data, 100 - stretch_percent)
             IN  [i \in DOMAIN band |->
                    IF IsNoData(band[i], no_data_value) THEN 0
                    ELSE IF p98 > p2
                         THEN IF band[i][1] = "nan" THEN nan_cast
                              ELSE Stretch(band[i][2], p2, p98)
                    ELSE IF p2 # 0 THEN 128 ELSE 0]

\* one channel of get_rgb_composite
RgbChannel(file_type, band, stretch_percent, no_data_value, nan_cast) ==
    IF file_type \in {"emit", "aviris3"}
    THEN NormalizeBand(Filled0(band), stretch_percent, no_data_value, nan_cast)
    ELSE NormalizeBand(band, stretch_percent, no_data_value, nan_cast)

\* the inputs tried
RECURSIVE SeqsUpTo(_, _)
SeqsUpTo(S, n) ==
    IF n = 0 THEN {<<>>}
    ELSE SeqsUpTo(S, n - 1)
         \cup { Append(q, e) : q \in { t \in SeqsUpTo(S, n - 1) : Len(t) = n - 1 },
                               e \in S }

EnviElements == {Num(0), Num(1), Num(5), NaN}
NcElements == {Num(0), Num(1), Num(5), Masked(5)}
StretchPercents == {-1, 0, 2, 25, 50}
NoDataValues == {None, Some(0), Some(5)}
NanCasts == {0, 255}
EnviBands == SeqsUpTo(EnviElements, MaxPixels) \ {<<>>}
NcBands == SeqsUpTo(NcElements, MaxPixels) \ {<<>>}

(***************************************************************************)
(* Automatic choice of the display bands.  wavelengths is None or          *)
(* Some(w), w the centre wavelengths in nm, one per band; band indices are *)
(* 0-based as in the source.                                               *)
(***************************************************************************)
MaxWavelengths == 4

Abs(x) == IF x < 0 THEN -x ELSE x

\* int(np.argmin(np.abs(wavelengths - target))): the first nearest band
ArgMin(w, target) ==
    MinOf({ i \in DOMAIN w :
              \A j \in DOMAIN w : Abs(w[i] - target) <= Abs(w[j] - target) }) - 1

MinInt(a, b) == IF a < b THEN a ELSE b

\* _estimate_rgb_bands
EstimateRgbBands(wavelengths, n_bands) ==
    IF wavelengths = None \/ wavelengths = Some(<<>>)
    THEN <<MinInt(29, n_bands - 1), MinInt(19, n_bands - 1),
           MinInt(9, n_bands - 1)>>
    ELSE <<ArgMin(wavelengths[1], 650), ArgMin(wavelengths[1], 550),
           ArgMin(wavelengths[1], 450)>>

\* get_rgb_composite with no band given: the three bands it reads
AutoRgbBands(wavelengths, max_bands) ==
    LET rgb_bands == EstimateRgbBands(wavelengths, max_bands)
    IN  <<ClampBand(rgb_bands[1], max_bands), ClampBand(rgb_bands[2], max_bands),
          ClampBand(rgb_bands[3], max_bands)>>

\* get_true_color_rgb_bands of utils.py, which the main window calls
GetTrueColorRgbBands(wavelengths) ==
    IF wavelengths = None THEN <<29, 19, 9>>
    ELSE IF wavelengths = Some(<<>>) THEN <<0, 0, 0>>
    ELSE LET w         == wavelengths[1]
             n_bands   == Len(w)
             min_wl    == MinOf({ w[i] : i \in DOMAIN w })
             max_wl    == -MinOf({ -w[i] : i \in DOMAIN w })
             has_blue  == min_wl <= 480
             has_green == min_wl <= 580 /\ max_wl >= 520
             has_red   == max_wl >= 620
             red_idx   == MinInt(n_bands - 1, (8 * n_bands) \div 10)
             green0    == MinInt(n_bands - 1, (5 * n_bands) \div 10)
             blue0     == MinInt(n_bands - 1, (2 * n_bands) \div 10)
             green_idx == IF red_idx = green0
                          THEN IF red_idx > 0 THEN red_idx - 1
                               ELSE MinInt(n_bands - 1, red_idx + 1)
                          ELSE green0
             blue1     == IF blue0 = green_idx
                          THEN IF blue0 > 1 THEN green_idx - 2
                               ELSE MinInt(n_bands - 1, green_idx + 2)
                          ELSE blue0
             blue_idx  == IF blue1 = red_idx
                          THEN IF blue1 > 2 THEN red_idx - 3
                               ELSE MinInt(n_bands - 1, red_idx + 3)
                          ELSE blue1
         IN  IF has_blue /\ has_green /\ has_red
             THEN <<ArgMin(w, 650), ArgMin(w, 550), ArgMin(w, 450)>>
             ELSE IF n_bands < 3 THEN <<0, 0, 0>>
             ELSE <<red_idx, green_idx, blue_idx>>

\* the inputs tried: ascending wavelengths of visible, near and short-wave
\* infrared bands, and np.arange(1, bands + 1) of a header without wavelengths
WavelengthValues == {1, 2, 3, 450, 550, 650, 1100, 1500, 2000}

RECURSIVE Ascending(_)
Ascending(S) ==
    IF S = {} THEN <<>> ELSE <<MinOf(S)>> \o Ascending(S \ {MinOf(S)})

WavelengthInputs ==
    {None} \cup { Some(Ascending(S)) :
                    S \in { T \in SUBSET WavelengthValues :
                              Cardinality(T) <= MaxWavelengths } }

(***************************************************************************)
(* _create_spy_file_with_interleave: the open through a temporary header   *)
(* that states the forced interleave.  io says what the temporary file     *)
(* does: "ok", "tempfile_fails" (it cannot be created) or "write_fails".   *)
(* The result is <<opened, interleave, temporary file left, header text>>. *)
(***************************************************************************)
\* header_content.split('\n')
RECURSIVE SplitNL(_, _, _)
SplitNL(text, cur, acc) ==
    IF text = <<>> THEN Append(acc, cur)
    ELSE IF Head(text) = NL THEN SplitNL(Tail(text), <<>>, Append(acc, cur))
    ELSE SplitNL(Tail(text), Append(cur, Head(text)), acc)

\* '\n'.join(modified_lines)
RECURSIVE JoinNL(_)
JoinNL(lines) ==
    IF lines = <<>> THEN <<>>
    ELSE IF Len(lines) = 1 THEN lines[1]
    ELSE lines[1] \o <<NL>> \o JoinNL(Tail(lines))

\* interleave.lower()
Lower(interleave) ==
    IF interleave = "BIL" THEN "bil"
    ELSE IF interleave = "BIP" THEN "bip"
    ELSE IF interleave = "BSQ" THEN "bsq" ELSE interleave

\* the text of the temporary header: every interleave line replaced, or one
\* added after the last line
ForcedHeader(header_content, interleave) ==
    LET lines    == SplitNL(header_content, <<>>, <<>>)
        forced   == <<"interleave", "=", Lower(interleave)>>
        modified == [i \in DOMAIN lines |->
                       IF LineStartsWith(lines[i], {"interleave"}) THEN forced
                       ELSE lines[i]]
        found_interleave ==
            \E i \in DOMAIN lines : LineStartsWith(lines[i], {"interleave"})
    IN  JoinNL(IF found_interleave THEN modified
               ELSE InsertAt(modified, Len(modified), forced))

\* envi.open as the handle sees it: <<opened, interleave>>
OpenedAs(text) ==
    IF EnviOpen(text).ok THEN <<TRUE, InterleaveOf(EnviOpen(text).metadata)>>
    ELSE <<FALSE, "">>

\* the open with the forced interleave and no fall back to the file's header
CreateSpyFileNoFallback(header_content, interleave, io) ==
    LET created == io # "tempfile_fails"
        spy     == IF io = "ok"
                   THEN OpenedAs(ForcedHeader(header_content, interleave))
                   ELSE <<FALSE, "">>
    IN  <<spy[1], spy[2], FALSE, header_content>>

\* _create_spy_file_with_interleave
CreateSpyFileWithInterleave(header_content, interleave, io) ==
    LET created   == io # "tempfile_fails"
        spy       == IF io = "ok"
                     THEN OpenedAs(ForcedHeader(header_content, interleave))
                     ELSE <<FALSE, "">>
        \* finally: if temp_header and os.path.exists(...): os.unlink(...)
        exists    == created
        temp_left == exists /\ ~(created /\ exists)
        fallback  == OpenedAs(header_content)
    IN  IF spy[1] THEN <<TRUE, spy[2], temp_left, header_content>>
        ELSE <<fallback[1], fallback[2], temp_left, header_content>>

\* _load_envi_data_original, lines 105-119: the file opened with or without a
\* forced interleave, as <<opened, self.interleave>>
OpenSpyFile(header_content, force_interleave, io) ==
    IF force_interleave # None
    THEN LET spy == CreateSpyFileWithInterleave(header_content,
                                                force_interleave[1], io)
         IN  <<spy[1], spy[2]>>
    ELSE OpenedAs(header_content)

\* load_envi_data(filename, load_to_ram, force_interleave) of an ENVI file and
\* then reload_from_header, the header unchanged in between: <<loaded,
\* self.interleave after the load, reloaded, self.interleave after the reload>>.
\* The reload calls load_envi_data(self.filename, load_to_ram=...) only.
ReloadAfterOpen(header_content, force_interleave, io) ==
    LET before == OpenSpyFile(header_content, force_interleave, io)
        after  == OpenSpyFile(header_content, None, io)
    IN  IF before[1] THEN <<TRUE, before[2], after[1], after[2]>>
        ELSE <<FALSE, "", FALSE, "">>

\* the headers tried: complete; no line end after the last line; no
\* interleave line; two bands lines of which the last one is broken; not an
\* ENVI header
ForceHeaders ==
    { BaseHeader("2"),
      SubSeq(BaseHeader("2"), 1, Len(BaseHeader("2")) - 1),
      SelectSeq(BaseHeader("2"), LAMBDA t : t \notin {"interleave", "bsq"}),
      BaseHeader("2") \o <<"bbl", "=", "{", "1", ",", NL, "0", "}", NL>>,
      BaseHeader("2") \o <<"bands", "=", "x", NL>>,
      Tail(BaseHeader("2")) }

(***************************************************************************)
(* The wavelengths a load stores.  An array is <<kind, n or values>>; of a *)
(* NetCDF file only the number of wavelengths is kept.                     *)
(***************************************************************************)
\* np.arange(1, n + 1)
Arange1(n) == [i \in 1..n |-> i]

\* _load_envi_data_original, lines 123-128.  centers is
\* spy_file.bands.centers: the wavelength list of the header as it stands, or
\* None; has_centers is what hasattr finds.  np.array(None) has no length.
EnviWavelengthArray(has_centers, centers, bands) ==
    IF has_centers
    THEN IF centers = None THEN <<"scalar", <<>>>> ELSE <<"array", centers[1]>>
    ELSE <<"array", Arange1(bands)>>

\* _get_spectral_dimension_size
GetSpectralDimensionSize(shape, dimensions) ==
    LET transpose_order == DetermineEmitTranspose(dimensions, shape)[1]
    IN  IF transpose_order = None THEN shape[3]
        ELSE IF transpose_order = Some(<<1, 2, 0>>) THEN shape[1]
        ELSE shape[(CHOOSE i \in 1..3 : transpose_order[1][i] = 2)]

\* _load_emit_data: <<wavelengths, shape>> as stored; file_wavelengths is the
\* number of wavelengths the container holds, or None
EmitWavelengths(dimensions, shape, load_to_ram, file_wavelengths) ==
    LET transpose_order == DetermineEmitTranspose(dimensions, shape)[1]
        final           == Transposed(shape, transpose_order)
    IN  << IF file_wavelengths # None THEN <<"file", file_wavelengths[1]>>
           ELSE IF load_to_ram
                THEN <<"arange", GetSpectralDimensionSize(shape, dimensions)>>
                ELSE <<"arange", final[3]>>,
           final >>

\* _load_aviris3_data: <<wavelengths, shape>> as stored
Aviris3Wavelengths(shape, file_wavelengths) ==
    << IF file_wavelengths # None THEN <<"file", file_wavelengths[1]>>
       ELSE <<"arange", shape[1]>>,
       Transposed(shape, Some(<<1, 2, 0>>)) >>

\* the axes named 'bands'
BandsAxes(dimensions) == { i \in 1..3 : dimensions[i] = "bands" }

(***************************************************************************)
(* The values of a line.  failing is the set of columns at which           *)
(* spy_file.read_pixel raises.                                             *)
(***************************************************************************)
\* self.data[line_index, :, :]; an index error ends in the outer except
MemmapLine(spy, line_index) ==
    LET line == Values2([c \in 1..spy.shape[2] |-> [b \in 1..spy.shape[3] |->
                    DataAt(spy, line_index, c - 1, b - 1)]])
    IN  IF line = None THEN None
        ELSE Some([c \in 1..spy.shape[2] |-> [b \in 1..spy.shape[3] |->
                     Num(line[1][c][b])]])

\* a line read that gives up at the first pixel that fails
ExtractLineValuesAborting(spy, use_memmap, line_index, failing) ==
    IF line_index < 0 \/ line_index >= spy.shape[1] THEN None
    ELSE IF ~use_memmap /\ failing # {} THEN None
    ELSE MemmapLine(spy, line_index)

\* extract_line_spectra of a loaded ENVI handle: the cols x bands array
ExtractLineValues(spy, use_memmap, line_index, failing) ==
    IF line_index < 0 \/ line_index >= spy.shape[1] THEN None
    ELSE IF use_memmap THEN MemmapLine(spy, line_index)
    ELSE Some([col \in 1..spy.shape[2] |->
                 LET spectrum == Values1([b \in 1..spy.shape[3] |->
                                     SpyAt(spy, line_index, col - 1, b - 1)])
                 IN  IF (col - 1) \in failing \/ spectrum = None
                     THEN [b \in 1..spy.shape[3] |-> NaN]
                     ELSE [b \in 1..spy.shape[3] |-> Num(spectrum[1][b])]])

(***************************************************************************)
(* The calls of the functions of values: a behaviour makes one call with   *)
(* inputs of the sets below and keeps what it returned.                    *)
(***************************************************************************)
Called(op, args, r) ==
    /\ call' = <<op, args>>
    /\ ret' = r
    /\ UNCHANGED <<dh, files, stopped, cleaned, reopened, registry>>

\* the function called and its i-th input
Op == call[1]
Arg(i) == call[2][i]

CallGetBandData ==
    /\ call = NoCall
    /\ \E shape \in Shapes, il \in Interleaves, ram \in BOOLEAN,
          b \in (-1)..MaxBands :
              Called("get_band_data", <<shape, il, ram, b>>,
                     GetBandValues(SpyFile(shape, il), ~ram, b))

CallGetPixelSpectrum ==
    /\ call = NoCall
    /\ \E shape \in Shapes, il \in Interleaves, ram \in BOOLEAN,
          x \in (-1)..MaxCols, y \in (-1)..MaxRows :
              Called("get_pixel_spectrum", <<shape, il, ram, x, y>>,
                     GetPixelValues(SpyFile(shape, il), ~ram, x, y))

CallDetermineEmitTranspose ==
    /\ call = NoCall
    /\ \E dimensions \in DimNames \X DimNames \X DimNames,
          shape \in DimSizes \X DimSizes \X DimSizes :
              Called("_determine_emit_transpose", <<dimensions, shape>>,
                     DetermineEmitTranspose(dimensions, shape))

\* get_rgb_composite, one channel: an ENVI band may hold NaN, a NetCDF band
\* masked elements
CallRgbChannel ==
    /\ call = NoCall
    /\ \E stretch_percent \in StretchPercents, no_data_value \in NoDataValues :
          \/ \E band \in EnviBands, nan_cast \in NanCasts :
                Called("get_rgb_composite",
                       <<"envi", band, stretch_percent, no_data_value, nan_cast>>,
                       RgbChannel("envi", band, stretch_percent, no_data_value,
                                  nan_cast))
          \/ \E file_type \in {"emit", "aviris3"}, band \in NcBands :
                Called("get_rgb_composite",
                       <<file_type, band, stretch_percent, no_data_value, 0>>,
                       RgbChannel(file_type, band, stretch_percent,
                                  no_data_value, 0))

\* get_rgb_composite with no band given: a loaded handle has one wavelength
\* per band, or none
CallAutoRgbBands ==
    /\ call = NoCall
    /\ \E wavelengths \in WavelengthInputs \ {Some(<<>>)},
          max_bands \in 1..MaxWavelengths :
              /\ wavelengths # None => max_bands = Len(wavelengths[1])
              /\ Called("_estimate_rgb_bands", <<wavelengths, max_bands>>,
                        AutoRgbBands(wavelengths, max_bands))

CallGetTrueColorRgbBands ==
    /\ call = NoCall
    /\ \E wavelengths \in WavelengthInputs :
              Called("get_true_color_rgb_bands", <<wavelengths>>,
                     GetTrueColorRgbBands(wavelengths))

\* extract_line_spectra: read from the memmap, or pixel by pixel with some
\* pixels failing
CallExtractLineSpectra ==
    /\ call = NoCall
    /\ \E shape \in Shapes, il \in Interleaves, line_index \in (-1)..MaxRows :
          \/ Called("extract_line_spectra", <<shape, il, FALSE, line_index, {}>>,
                    ExtractLineValues(SpyFile(shape, il), TRUE, line_index, {}))
          \/ \E failing \in SUBSET (0..(shape[2] - 1)) :
                Called("extract_line_spectra",
                       <<shape, il, TRUE, line_index, failing>>,
                       ExtractLineValues(SpyFile(shape, il), FALSE, line_index,
                                         failing))

\* the wavelengths of an ENVI load
CallEnviWavelengths ==
    /\ call = NoCall
    /\ \E has_centers \in BOOLEAN, centers \in WavelengthInputs,
          bands \in 1..MaxBands :
              Called("envi_wavelengths", <<has_centers, centers, bands>>,
                     EnviWavelengthArray(has_centers, centers, bands))

\* the wavelengths of an EMIT load: a container with wavelengths has one per
\* element of its 'bands' axis
CallEmitWavelengths ==
    /\ call = NoCall
    /\ \E dimensions \in DimNames \X DimNames \X DimNames,
          shape \in DimSizes \X DimSizes \X DimSizes, load_to_ram \in BOOLEAN :
          \/ Called("emit_wavelengths", <<dimensions, shape, load_to_ram, None>>,
                    EmitWavelengths(dimensions, shape, load_to_ram, None))
          \/ /\ Cardinality(BandsAxes(dimensions)) = 1
             /\ LET n == shape[CHOOSE i \in BandsAxes(dimensions) : TRUE]
                IN  Called("emit_wavelengths",
                           <<dimensions, shape, load_to_ram, Some(n)>>,
                           EmitWavelengths(dimensions, shape, load_to_ram,
                                           Some(n)))

\* the wavelengths of an AVIRIS-3 load: the variable is (wavelength, lines,
\* samples)
CallAviris3Wavelengths ==
    /\ call = NoCall
    /\ \E shape \in DimSizes \X DimSizes \X DimSizes,
          file_wavelengths \in BOOLEAN :
              LET fw == IF file_wavelengths THEN Some(shape[1]) ELSE None
              IN  Called("aviris3_wavelengths", <<shape, fw>>,
                         Aviris3Wavelengths(shape, fw))

\* the open of _load_envi_data_original with force_interleave
CallCreateSpyFileWithInterleave ==
    /\ call = NoCall
    /\ \E header_content \in ForceHeaders,
          interleave \in Interleaves \cup {"BIL"},
          io \in {"ok", "tempfile_fails", "write_fails"} :
              Called("_create_spy_file_with_interleave",
                     <<header_content, interleave, io>>,
                     CreateSpyFileWithInterleave(header_content, interleave, io))

CallReloadFromHeader ==
    /\ call = NoCall
    /\ \E header_content \in ForceHeaders,
          force_interleave \in {None} \cup
              { Some(i) : i \in Interleaves \cup {"BIL"} },
          io \in {"ok", "tempfile_fails", "write_fails"} :
              Called("reload_from_header",
                     <<header_content, force_interleave, io>>,
                     ReloadAfterOpen(header_content, force_interleave, io))

NextCalls ==
    \/ CallReloadFromHeader
    \/ CallCreateSpyFileWithInterleave
    \/ CallEnviWavelengths
    \/ CallEmitWavelengths
    \/ CallAviris3Wavelengths
    \/ CallExtractLineSpectra
    \/ CallGetBandData
    \/ CallGetPixelSpectrum
    \/ CallDetermineEmitTranspose
    \/ CallRgbChannel
    \/ CallAutoRgbBands
    \/ CallGetTrueColorRgbBands

InitCalls == InitWith({BaseHeader("2")})

SpecCalls == InitCalls /\ [][NextCalls]_vars

(***************************************************************************)
(* core/data_manager.py (class DataManager): the registry of datasets.  A  *)
(* dict is the sequence of its <<key, value>> pairs in insertion order; a  *)
(* name is a sequence of strings, the requested name and the time stamps   *)
(* appended to it; a handler is the number of the DataHandler object.      *)
(***************************************************************************)
MaxHandlers == 3

Keys(d) == { d[i][1] : i \in DOMAIN d }

\* d.get(k)
DictGet(d, k) ==
    IF k \in Keys(d) THEN Some((CHOOSE i \in DOMAIN d : d[i][1] = k))
    ELSE None

\* d[k] = v: a key already there keeps its place
DictSet(d, k, v) ==
    IF k \in Keys(d)
    THEN [i \in DOMAIN d |-> IF d[i][1] = k THEN <<k, v>> ELSE d[i]]
    ELSE Append(d, <<k, v>>)

\* del d[k]
DictDel(d, k) == SelectSeq(d, LAMBDA e : e[1] # k)

\* get_dataset
GetDataset(ds, name) ==
    IF name \in Keys(ds) THEN Some(ds[DictGet(ds, name)[1]][2]) ELSE None

\* add_dataset: <<datasets, metadata, active_dataset>> after it; timestamp is
\* strftime("%H%M%S") of the clock, source_type the 'type' of source_info
AddDataset(ds, md, active, name, data_handler, source_type, timestamp) ==
    LET name1 == IF name \in Keys(ds) THEN Append(name, timestamp) ELSE name
    IN  << DictSet(ds, name1, data_handler),
           DictSet(md, name1, source_type),
           IF active = None THEN Some(name1) ELSE active >>

\* create_derived: <<datasets, metadata, active_dataset, name returned>>
CreateDerived(ds, md, active, name, derived_handler, timestamp) ==
    AddDataset(ds, md, active, name, derived_handler, "derived", timestamp)
        \o <<name>>

\* set_active_dataset
SetActiveDataset(ds, active, name) ==
    IF name \in Keys(ds) THEN Some(name) ELSE active

\* a removal that leaves active_dataset as it is
RemoveDatasetKeepsActive(ds, md, active, name) ==
    IF name \in Keys(ds) THEN <<DictDel(ds, name), DictDel(md, name), active>>
    ELSE <<ds, md, active>>

\* remove_dataset: <<datasets, metadata, active_dataset>> after it
RemoveDataset(ds, md, active, name) ==
    IF name \in Keys(ds)
    THEN LET ds1 == DictDel(ds, name)
         IN  << ds1, DictDel(md, name),
                IF active = Some(name)
                THEN IF ds1 # <<>> THEN Some(ds1[1][1]) ELSE None
                ELSE active >>
    ELSE <<ds, md, active>>

\* the names asked for, and the time stamps the clock gives
RequestedNames == { <<"a">>, <<"b">>, <<"a", "t1">> }
Timestamps == {"t1", "t2"}
\* every name that can be registered
AllNames ==
    RequestedNames \cup { Append(n, t) : n \in RequestedNames, t \in Timestamps }

DoAddDataset ==
    /\ handlers < MaxHandlers
    /\ \E name \in RequestedNames, timestamp \in Timestamps :
          LET r == AddDataset(datasets, metadata, active_dataset, name,
                              handlers + 1, "original", timestamp)
          IN  /\ datasets' = r[1]
              /\ metadata' = r[2]
              /\ active_dataset' = r[3]
    /\ handlers' = handlers + 1
    /\ derived' = None
    /\ UNCHANGED <<dh, files, stopped, cleaned, reopened, call, ret>>

DoCreateDerived ==
    /\ handlers < MaxHandlers
    /\ \E name \in RequestedNames, timestamp \in Timestamps :
          LET r == CreateDerived(datasets, metadata, active_dataset, name,
                                 handlers + 1, timestamp)
          IN  /\ datasets' = r[1]
              /\ metadata' = r[2]
              /\ active_dataset' = r[3]
              /\ derived' = Some(<<r[4], handlers + 1>>)
    /\ handlers' = handlers + 1
    /\ UNCHANGED <<dh, files, stopped, cleaned, reopened, call, ret>>

DoSetActiveDataset ==
    /\ \E name \in AllNames :
          active_dataset' = SetActiveDataset(datasets, active_dataset, name)
    /\ derived' = None
    /\ UNCHANGED <<datasets, metadata, handlers>>
    /\ UNCHANGED <<dh, files, stopped, cleaned, reopened, call, ret>>

DoRemoveDataset ==
    /\ \E name \in AllNames :
          LET r == RemoveDataset(datasets, metadata, active_dataset, name)
          IN  /\ datasets' = r[1]
              /\ metadata' = r[2]
              /\ active_dataset' = r[3]
    /\ derived' = None
    /\ UNCHANGED handlers
    /\ UNCHANGED <<dh, files, stopped, cleaned, reopened, call, ret>>

\* clear_all
DoClearAll ==
    /\ datasets' = <<>>
    /\ metadata' = <<>>
    /\ active_dataset' = None
    /\ derived' = None
    /\ UNCHANGED handlers
    /\ UNCHANGED <<dh, files, stopped, cleaned, reopened, call, ret>>

NextManager ==
    \/ DoAddDataset
    \/ DoCreateDerived
    \/ DoSetActiveDataset
    \/ DoRemoveDataset
    \/ DoClearAll

InitManager == InitWith({BaseHeader("2")})

SpecManager == InitManager /\ [][NextManager]_vars

(***************************************************************************)
(* What the properties below speak of.                                     *)
(***************************************************************************)

\* the handle holds an ENVI dataset, the one the setters work on
EnviLoaded == dh.is_loaded /\ dh.file_type = Some("envi")

\* a mask of as many entries as the cube has bands, every entry 0 or 1
ValidMask(h, mask) ==
    /\ Len(mask) = Bands(h)
    /\ \A i \in 1..Len(mask) : mask[i] \in {Zero, One}

\* the integers of a valid mask
MaskInts(mask) == [i \in 1..Len(mask) |-> mask[i][1]]

\* the last line of the value that begins on line i with "{"
RECURSIVE BraceEnd(_, _)
BraceEnd(lines, i) ==
    IF i >= Len(lines) THEN Len(lines)
    ELSE IF Strip(lines[i]) # <<>> /\ Strip(lines[i])[Len(Strip(lines[i]))] = "}"
         THEN i
         ELSE BraceEnd(lines, i + 1)

\* the indices of the lines of a header that make up the entries of key:
\* the line "key = ..." and the lines its braced value runs over
RECURSIVE EntryLines(_, _, _, _)
EntryLines(lines, i, key, acc) ==
    IF i > Len(lines) THEN acc
    ELSE LET eq == FirstEq(lines[i], 1)
         IN  IF eq = 0 THEN EntryLines(lines, i + 1, key, acc)
             ELSE LET k    == Strip(SubSeq(lines[i], 1, eq - 1))
                      val  == Strip(SubSeq(lines[i], eq + 1, Len(lines[i])))
                      last == IF val # <<>> /\ val[1] = "{"
                              THEN BraceEnd(lines, i) ELSE i
                  IN  EntryLines(lines, last + 1, key,
                                 IF k = <<key>> THEN acc \cup (i..last) ELSE acc)

\* the lines of a header that belong to another key than those of keys,
\* in their order
OtherLines(lines, keys) ==
    LET own == UNION { EntryLines(lines, 1, k, {}) : k \in keys }
        RECURSIVE Keep(_)
        Keep(i) == IF i > Len(lines) THEN <<>>
                   ELSE IF i \in own THEN Keep(i + 1)
                   ELSE <<lines[i]>> \o Keep(i + 1)
    IN  Keep(1)

\* s is t with some elements left out
RECURSIVE IsSubseq(_, _)
IsSubseq(s, t) ==
    IF s = <<>> THEN TRUE
    ELSE IF t = <<>> THEN FALSE
    ELSE IF Head(s) = Head(t) THEN IsSubseq(Tail(s), Tail(t))
    ELSE IsSubseq(s, Tail(t))

Range(s) == { s[i] : i \in DOMAIN s }

\* the text of the header file of the dataset the handle holds
HeaderText(fs) == fs[dh.header_filename[1]].text

\* the same file opened on a new handle
Reopen(fs) == LoadEnviData(NewDataHandler, fs, dh.filename[1], FALSE)

\* the largest band, line and pixel index the reads are tried with
MaxIndex == 3
Indices == (-1)..MaxIndex

(***************************************************************************)
(* The properties.                                                         *)
(***************************************************************************)

\* C1: when the header rewrite of set_bad_band_list or set_data_ignore_value
\* fails (the call gets past its validation and returns False), the bad band
\* list and the data ignore value in memory are what they were before the
\* call.
C1_RolledBackOnFailure ==
    EnviLoaded =>
        /\ \A m \in MaskInputs, io \in IoOutcomes :
              LET r == SetBadBandList(dh, files, m, io)
              IN  ((m = None \/ ValidMask(dh, m[1])) /\ ~r.ret) =>
                      /\ r.h.bad_band_list = dh.bad_band_list
                      /\ r.h.data_ignore_value = dh.data_ignore_value
        /\ \A v \in IgnoreInputs, io \in IoOutcomes :
              LET r == SetDataIgnoreValue(dh, files, v, io)
              IN  ~r.ret =>
                      /\ r.h.bad_band_list = dh.bad_band_list
                      /\ r.h.data_ignore_value = dh.data_ignore_value

\* C2: after set_bad_band_list(mask) with a valid mask returns True, the same
\* file opened again, and reload_from_header on the handle, give a bad band
\* list equal to mask, whatever the header held before.
C2_MaskReadBack ==
    EnviLoaded =>
        \A m \in MaskInputs \ {None} :
            LET r == SetBadBandList(dh, files, m, IoOk)
            IN  (ValidMask(dh, m[1]) /\ r.ret) =>
                    /\ Reopen(r.files).ret
                    /\ Reopen(r.files).h.bad_band_list = Some(MaskInts(m[1]))
                    /\ ReloadFromHeader(r.h, r.files).ret
                    /\ ReloadFromHeader(r.h, r.files).h.bad_band_list
                           = Some(MaskInts(m[1]))

\* C3: after set_bad_band_list(None) returns True no line of the bbl entry of
\* the old header (its key line, the lines of its value) is in the header
\* file, and the file opened again has no bad band list.
C3_ClearedBblLeavesNoLine ==
    EnviLoaded =>
        LET r   == SetBadBandList(dh, files, None, IoOk)
            old == ReadLines(HeaderText(files))
        IN  r.ret =>
                /\ \A i \in EntryLines(old, 1, "bbl", {}) :
                       old[i] \notin Range(ReadLines(HeaderText(r.files)))
                /\ Reopen(r.files).ret => Reopen(r.files).h.bad_band_list = None

\* C4: when the process stops inside a header rewrite, the header file holds
\* the whole old text or the whole new text.
C4_OldOrNewAfterStop ==
    stopped # None =>
        \/ HeaderText(files) = stopped[1].old
        \/ HeaderText(files) = stopped[1].new

\* C5: a header rewrite that succeeds leaves the lines of every other key as
\* they were and in their order: the old header's lines that do not belong to
\* the rewritten key are all in the new header, unchanged, in the same order.
C5_OtherKeysKept ==
    EnviLoaded =>
        /\ \A m \in MaskInputs :
              LET r == SetBadBandList(dh, files, m, IoOk)
              IN  r.ret =>
                      IsSubseq(OtherLines(ReadLines(HeaderText(files)), {"bbl"}),
                               ReadLines(HeaderText(r.files)))
        /\ \A v \in IgnoreInputs :
              LET r == SetDataIgnoreValue(dh, files, v, IoOk)
              IN  r.ret =>
                      IsSubseq(OtherLines(ReadLines(HeaderText(files)),
                                          {"data ignore value", "data_ignore_value"}),
                               ReadLines(HeaderText(r.files)))

\* C6: in every state of a loaded handle the bad band list is None or has as
\* many entries as the cube has bands.
C6_BblLengthIsBands ==
    dh.is_loaded =>
        \/ dh.bad_band_list = None
        \/ Len(dh.bad_band_list[1]) = Bands(dh)

\* C7: set_bad_band_list with a mask of the wrong length, or with an entry
\* other than 0 and 1, returns False and leaves the handle (bad band list,
\* header dict) and the header file as they were.
C7_InvalidMaskRejected ==
    EnviLoaded =>
        \A m \in MaskInputs \ {None}, io \in IoOutcomes :
            LET r == SetBadBandList(dh, files, m, io)
            IN  ~ValidMask(dh, m[1]) =>
                    /\ ~r.ret
                    /\ r.h = dh
                    /\ r.files = files

\* C8: a load_envi_data that returns False leaves the handle not loaded, or
\* with every field as it was before the call.
C8_FailedLoadNotPartial ==
    \A f \in AllFiles, ram \in BOOLEAN :
        LET r == LoadEnviData(dh, files, f, ram)
        IN  ~r.ret =>
                \/ ~r.h.is_loaded
                \/ /\ r.h.data = dh.data
                   /\ r.h.spy_file = dh.spy_file
                   /\ r.h.shape = dh.shape
                   /\ r.h.header = dh.header
                   /\ r.h.wavelengths = dh.wavelengths
                   /\ r.h.file_type = dh.file_type
                   /\ r.h.filename = dh.filename
                   /\ r.h.bad_band_list = dh.bad_band_list
                   /\ r.h.data_ignore_value = dh.data_ignore_value

\* C9: between two calls the only NetCDF container the handle holds open is
\* that of the dataset it has loaded without load_to_ram: none after a load
\* that failed, none after another file was loaded, none after cleanup.
C9_ContainerReleased ==
    dh.nc_dataset # None =>
        /\ dh.is_loaded
        /\ dh.file_type \in {Some("emit"), Some("aviris3")}
        /\ dh.filename = dh.nc_dataset

\* the handle serves nothing: every read returns None, get_info is empty,
\* the setters and reload_from_header return False and write nothing
ServesNothing ==
    /\ GetInfo(dh) = None
    /\ \A i \in Indices :
          /\ GetBandData(dh, i) = None
          /\ ExtractLineSpectra(dh, i) = None
          /\ \A j \in Indices : GetPixelSpectrum(dh, i, j) = None
          /\ GetRgbComposite(dh, i, i, i) = None
    /\ \A m \in MaskInputs :
          /\ ~SetBadBandList(dh, files, m, IoOk).ret
          /\ SetBadBandList(dh, files, m, IoOk).files = files
    /\ \A v \in IgnoreInputs :
          /\ ~SetDataIgnoreValue(dh, files, v, IoOk).ret
          /\ SetDataIgnoreValue(dh, files, v, IoOk).files = files
    /\ ~ReloadFromHeader(dh, files).ret

C11_OtherHandleSeesRewrite ==
    (EnviLoaded /\ Reopen(files).ret) =>
        /\ \A m \in MaskInputs :
              LET r  == SetBadBandList(dh, files, m, IoOk)
                  rb == ReloadFromHeader(Reopen(files).h, r.files)
              IN  ((m = None \/ ValidMask(dh, m[1])) /\ r.ret /\ rb.ret) =>
                      rb.h.bad_band_list =
                          IF m = None THEN None ELSE Some(MaskInts(m[1]))
        /\ \A v \in IgnoreInputs :
              LET r  == SetDataIgnoreValue(dh, files, v, IoOk)
                  rb == ReloadFromHeader(Reopen(files).h, r.files)
              IN  (r.ret /\ rb.ret) => rb.h.data_ignore_value = v

\* C12: after a load_envi_data that returns True, whatever the kind of the
\* file and the storage mode, get_band_data(i) with 0 <= i < bands returns
\* plane i of the cube of the file just loaded: never None, never data of a
\* file the handle had opened earlier.
C12_BandOfCurrentCube ==
    \A f \in AllFiles, ram \in BOOLEAN :
        LET r == LoadEnviData(dh, files, f, ram)
        IN  r.ret =>
                \A i \in 0..(Bands(r.h) - 1) :
                    GetBandData(r.h, i) = Some([file |-> f, part |-> <<"band", i>>])

\* the plane of band b and the spectrum of pixel (x, y) of the logical cube
LogicalBand(shape, b) ==
    [r \in 1..shape[1] |-> [c \in 1..shape[2] |-> CubeValue(r - 1, c - 1, b)]]

LogicalSpectrum(shape, x, y) ==
    [b \in 1..shape[3] |-> CubeValue(y, x, b - 1)]

\* C13: for the same logical cube stored as bsq, bil and bip,
\* get_band_data(b) and get_pixel_spectrum(x, y) with indices in range return
\* the same values from the three files, those of the logical cube, in both
\* storage modes.
C13_InterleaveEquivalence ==
    /\ (Op = "get_band_data" /\ Arg(4) \in 0..(Arg(1)[3] - 1)) =>
          /\ ret = Some(LogicalBand(Arg(1), Arg(4)))
          /\ \A il \in Interleaves :
                GetBandValues(SpyFile(Arg(1), il), ~Arg(3), Arg(4)) = ret
    /\ (Op = "get_pixel_spectrum" /\ Arg(4) \in 0..(Arg(1)[2] - 1)
                                  /\ Arg(5) \in 0..(Arg(1)[1] - 1)) =>
          /\ ret = Some(LogicalSpectrum(Arg(1), Arg(4), Arg(5)))
          /\ \A il \in Interleaves :
                GetPixelValues(SpyFile(Arg(1), il), ~Arg(3), Arg(4), Arg(5)) = ret

\* a band of a bil file of more than one row, column and band was read
C13_BilBandRead ==
    /\ Op = "get_band_data"
    /\ Arg(1) = <<MaxRows, MaxCols, MaxBands>>
    /\ Arg(2) = "bil"
    /\ Arg(4) = 1
    /\ ret # None

\* the axes of the variable of the call: <<name, size>> each
AxesOfCall == [i \in 1..3 |-> <<Arg(1)[i], Arg(2)[i]>>]

\* the axes of s other than the bands axis, in their order
RECURSIVE SpatialAxes(_)
SpatialAxes(s) ==
    IF s = <<>> THEN <<>>
    ELSE IF Head(s)[1] = "bands" THEN SpatialAxes(Tail(s))
    ELSE <<Head(s)>> \o SpatialAxes(Tail(s))

\* C14: for a variable of three axes, one named 'bands' of length 224 and
\* two spatial axes of any length, the order returned by
\* _determine_emit_transpose puts the 'bands' axis last and leaves the two
\* spatial axes first, in their original order.
C14_BandsAxisLast ==
    (/\ Op = "_determine_emit_transpose"
     /\ Len(SpatialAxes(AxesOfCall)) = 2
     /\ \E i \in 1..3 : AxesOfCall[i] = <<"bands", 224>>) =>
        LET t == Transposed(AxesOfCall, ret[1])
        IN  /\ t[3] = <<"bands", 224>>
            /\ <<t[1], t[2]>> = SpatialAxes(AxesOfCall)

\* C15: when no axis or more than one axis classifies as spectral,
\* _determine_emit_transpose takes axis 0 as the spectral axis (it returns
\* (1, 2, 0)) and prints a warning.
C15_AmbiguousTakesAxis0 ==
    (/\ Op = "_determine_emit_transpose"
     /\ Cardinality(SpectralDims(Arg(1), Arg(2))) # 1) =>
        /\ ret[1] = Some(<<1, 2, 0>>)
        /\ ret[2] # {}

\* C16: after an EMIT file is loaded on any handle, fresh or used before,
\* every element equal to the fill value -9999 or outside [0, 1] is NaN in
\* the spectra returned, and every element inside [0, 1] is returned as it is.
C16_EmitRangeMasked ==
    \A f \in EmitFiles, ram \in BOOLEAN :
        LET r == LoadEnviData(dh, files, f, ram)
        IN  r.ret =>
                \A v \in ElementValues :
                    EmitElement(r.h, v) =
                        IF v = -9999 \/ v < 0 \/ v > 1 THEN None ELSE Some(v)

\* the element is valid: a number that is not the no-data value
IsValid(e, no_data_value) == e[1] = "num" /\ ~IsNoData(e, no_data_value)

\* the elements of out at the places where band holds a valid element
RECURSIVE AtValid(_, _, _)
AtValid(out, band, no_data_value) ==
    IF band = <<>> THEN <<>>
    ELSE IF IsValid(Head(band), no_data_value)
         THEN <<Head(out)>> \o AtValid(Tail(out), Tail(band), no_data_value)
         ELSE AtValid(Tail(out), Tail(band), no_data_value)

\* C17: in get_rgb_composite the stretch of a channel is computed over the
\* valid elements only (finite, not the no-data value, not masked): the
\* output of the valid pixels is what the stretch of the valid elements alone
\* gives, and every other pixel is 0.
C17_StretchOverValidOnly ==
    Op = "get_rgb_composite" =>
        /\ AtValid(ret, Arg(2), Arg(4)) =
               NormalizeBand(SelectSeq(Arg(2), LAMBDA e : IsValid(e, Arg(4))),
                             Arg(3), Arg(4), 0)
        /\ \A i \in DOMAIN ret : ~IsValid(Arg(2)[i], Arg(4)) => ret[i] = 0

\* the band of the call holds the number c at every pixel
ConstantBand(c) == \A i \in DOMAIN Arg(2) : Arg(2)[i] = Num(c)

\* C18, as stated: every element of the image is an integer in [0, 255], and
\* a constant band gives the uniform output 0 if the constant is 0 and 128
\* otherwise, for every no_data_value.
C18_ConstantBand128 ==
    Op = "get_rgb_composite" =>
        /\ \A i \in DOMAIN ret : ret[i] \in 0..255
        /\ \A c \in {0, 1, 5} : ConstantBand(c) =>
              \A i \in DOMAIN ret : ret[i] = IF c = 0 THEN 0 ELSE 128

\* C18, as the code has it: every element of the image is an integer in
\* [0, 255], and a constant band gives the uniform output 0 if the constant is
\* 0 or is the no-data value, and 128 otherwise.
C18_ConstantBandUnlessNoData ==
    Op = "get_rgb_composite" =>
        /\ \A i \in DOMAIN ret : ret[i] \in 0..255
        /\ \A c \in {0, 1, 5} : ConstantBand(c) =>
              \A i \in DOMAIN ret :
                  ret[i] = IF c = 0 \/ Arg(4) = Some(c) THEN 0 ELSE 128

\* a band that is 5 everywhere, 5 being the no-data value, gave 0 everywhere
C18_ConstantNoDataBand ==
    /\ Op = "get_rgb_composite"
    /\ Arg(2) = <<Num(5), Num(5)>>
    /\ Arg(4) = Some(5)
    /\ ret = <<0, 0>>

\* C19: when the low and the high percentile of the valid data are equal and
\* the valid data is not constant, the channel is stretched linearly over
\* [min, max] of the valid data; only a constant channel is 128 or 0.
C19_EqualPercentilesUseMinMax ==
    (Op = "get_rgb_composite" /\ Arg(1) = "envi") =>
        LET valid == Sorted(ValidData(Arg(2), Arg(4)))
        IN  (/\ valid # <<>>
             /\ Arg(3) \in 0..50
             /\ Percentile100(valid, Arg(3)) = Percentile100(valid, 100 - Arg(3))
             /\ valid[1] < valid[Len(valid)]) =>
                \A i \in DOMAIN ret :
                    IsValid(Arg(2)[i], Arg(4)) =>
                        ret[i] = Stretch(Arg(2)[i][2], 100 * valid[1],
                                         100 * valid[Len(valid)])

\* the wavelengths of the call reach no visible band (400 to 700 nm)
NoVisibleCoverage ==
    \A i \in DOMAIN Arg(1)[1] : Arg(1)[1][i] < 400 \/ Arg(1)[1][i] > 700

\* the target wavelengths of red, green and blue
RgbTargets == <<650, 550, 450>>

\* C20: get_rgb_composite with no band given picks, for 650, 550 and 450 nm,
\* the bands with the nearest wavelength; when no wavelength of the cube is
\* visible and the cube has at least 3 bands, the three bands it picks are
\* pairwise distinct.
C20_AutoBandsNearestOrSpread ==
    (Op = "_estimate_rgb_bands" /\ Arg(1) # None) =>
        LET w == Arg(1)[1]
        IN  IF NoVisibleCoverage
            THEN Len(w) >= 3 =>
                    (ret[1] # ret[2] /\ ret[2] # ret[3] /\ ret[1] # ret[3])
            ELSE \A k \in 1..3 : \A j \in DOMAIN w :
                    Abs(w[ret[k] + 1] - RgbTargets[k]) <= Abs(w[j] - RgbTargets[k])

\* C21: on a loaded handle, get_rgb_composite with a band index below 0 or
\* not below bands returns no image: it never builds an image from a band
\* other than the one asked for.
C21_OutOfRangeBandRefused ==
    dh.is_loaded =>
        \A r \in Indices, g \in Indices, b \in Indices :
            (\E i \in {r, g, b} : i < 0 \/ i >= Bands(dh)) =>
                GetRgbComposite(dh, r, g, b) = None

\* C22: extract_line_spectra on an ENVI handle loaded to RAM, with a line in
\* range: the call returns the full cols x bands array; the row of every pixel
\* whose read failed is NaN in every band and the row of every other pixel is
\* its spectrum in the logical cube.
C22_FailedPixelIsNaNRow ==
    (/\ Op = "extract_line_spectra"
     /\ Arg(3)
     /\ 0 <= Arg(4) /\ Arg(4) < Arg(1)[1]) =>
        /\ ret # None
        /\ DOMAIN ret[1] = 1..Arg(1)[2]
        /\ \A col \in 1..Arg(1)[2] :
              ret[1][col] =
                  IF (col - 1) \in Arg(5)
                  THEN [b \in 1..Arg(1)[3] |-> NaN]
                  ELSE [b \in 1..Arg(1)[3] |->
                           Num(LogicalSpectrum(Arg(1), col - 1, Arg(4))[b])]

\* a line of two pixels was read to the end although one of them failed
C22_OnePixelFailed ==
    /\ Op = "extract_line_spectra"
    /\ Arg(3)
    /\ Arg(1)[2] = 2
    /\ Arg(5) = {0}
    /\ ret # None
    /\ ret[1][1][1] = NaN
    /\ ret[1][2][1] # NaN

\* C23: after a successful open of an ENVI, EMIT or AVIRIS-3 file,
\* wavelengths has exactly shape[2] (bands) entries, and when the file carries
\* no wavelengths they are 1, 2, ..., bands.
C23_OneWavelengthPerBand ==
    /\ Op = "envi_wavelengths" =>
          /\ ret[1] = "array"
          /\ Len(ret[2]) = Arg(3)
          /\ Arg(2) = None => ret[2] = Arange1(Arg(3))
    /\ Op \in {"emit_wavelengths", "aviris3_wavelengths"} =>
          /\ ret[1][2] = ret[2][3]
          /\ call[2][Len(call[2])] = None => ret[1][1] = "arange"

ExternalLines ==
    { <<"description", "=", "x", NL>>, <<"description", "=", "x">>,
      <<"bbl_source", "=", "manual", NL>>,
      <<"bbl", "=", "{", "1", ",", "0", "}", NL>>,
      <<"data ignore value", "=", "0.0", NL>> }

\* the header files after the line was added at the end of the header of the
\* handle's dataset
ExternallyEdited(fs, line) ==
    LET f    == dh.header_filename[1]
        text == fs[f].text
    IN  [fs EXCEPT ![f].text =
            IF text = <<>> \/ text[Len(text)] = NL THEN text \o line
            ELSE text \o <<NL>> \o line]

\* the header holds the line, whole and alone on its line
HoldsLine(text, line) ==
    \E i \in DOMAIN ReadLines(text) : Strip(ReadLines(text)[i]) = Strip(line)

\* C25: a header rewrite works on what the file holds when the setter runs:
\* a line of another field that was added to the header after the handle
\* opened the file is still in the header after a later set_bad_band_list or
\* set_data_ignore_value that succeeds.
C25_ExternalEditKept ==
    (EnviLoaded /\ files[dh.header_filename[1]].exists) =>
        \A line \in ExternalLines :
            /\ line[1] # "bbl" =>
                  \A m \in MaskInputs :
                      LET r == SetBadBandList(dh, ExternallyEdited(files, line),
                                              m, IoOk)
                      IN  r.ret => HoldsLine(r.files[dh.header_filename[1]].text,
                                             line)
            /\ line[1] # "data ignore value" =>
                  \A v \in IgnoreInputs :
                      LET r == SetDataIgnoreValue(dh, ExternallyEdited(files, line),
                                                  v, IoOk)
                      IN  r.ret => HoldsLine(r.files[dh.header_filename[1]].text,
                                             line)

\* C26: create_derived returns the name under which the derived dataset is
\* registered: right after it, get_dataset of the name returned is the handler
\* it made, also when the name asked for was taken.
C26_ReturnedNameIsRegistered ==
    derived # None => GetDataset(datasets, derived[1][1]) = Some(derived[1][2])

\* the first name of the registry other than name, or None
FirstRemaining(name) ==
    LET rest == SelectSeq(datasets, LAMBDA e : e[1] # name)
    IN  IF rest = <<>> THEN None ELSE Some(rest[1][1])

\* C30: datasets and metadata have the same keys; active_dataset is None
\* exactly when the registry is empty and names a registered dataset
\* otherwise; removing the active dataset makes the first remaining dataset
\* active.
C30_RegistryConsistent ==
    /\ Keys(datasets) = Keys(metadata)
    /\ active_dataset = None <=> datasets = <<>>
    /\ active_dataset # None => active_dataset[1] \in Keys(datasets)
    /\ active_dataset # None =>
          RemoveDataset(datasets, metadata, active_dataset,
                        active_dataset[1])[3] = FirstRemaining(active_dataset[1])

\* three datasets are registered and the last one is the active one
C30_LastOfThreeActive ==
    /\ Len(datasets) = 3
    /\ active_dataset = Some(datasets[3][1])

\* C27: on a loaded handle get_pixel_spectrum(x, y) with x outside
\* [0, cols) or y outside [0, rows), get_band_data(i) with i outside
\* [0, bands) and extract_line_spectra(r) with r outside [0, rows) return
\* None; x is held against shape[1] and y against shape[0].  The three reads
\* assign no field of the handle.
C27_OutOfRangeReadsNone ==
    dh.is_loaded =>
        \A i \in Indices :
            /\ (i < 0 \/ i >= dh.shape[1][3]) => GetBandData(dh, i) = None
            /\ (i < 0 \/ i >= dh.shape[1][1]) => ExtractLineSpectra(dh, i) = None
            /\ \A j \in Indices :
                  (i < 0 \/ i >= dh.shape[1][2] \/ j < 0 \/ j >= dh.shape[1][1])
                      => GetPixelSpectrum(dh, i, j) = None

\* a cube of one row and two columns serves column 1 of row 0 and refuses
\* column 0 of row 1
C27_ColumnServedRowRefused ==
    /\ dh.is_loaded
    /\ dh.shape[1][1] = 1 /\ dh.shape[1][2] = 2
    /\ GetPixelSpectrum(dh, 1, 0) # None
    /\ GetPixelSpectrum(dh, 0, 1) = None

\* what a caller can see of a handle: the mask on the data, the bad band
\* list, the data ignore value, the files it holds open, and every read
Observable(h) ==
    << h.data, h.bad_band_list, h.data_ignore_value, h.spy_file, h.nc_dataset,
       [i \in Indices |-> GetBandData(h, i)],
       [i \in Indices |-> ExtractLineSpectra(h, i)],
       [i \in Indices |-> [j \in Indices |-> GetPixelSpectrum(h, i, j)]] >>

\* C28: the state of a handle after a load_envi_data that returns True
\* depends on the file and the arguments only: whatever the handle held
\* before, it ends as a new handle that loads the same file with the same
\* arguments (validity mask, bad band list, data ignore value, files held
\* open, results of the reads).
C28_LoadIndependentOfHistory ==
    \A f \in AllFiles, ram \in BOOLEAN :
        LET r     == LoadEnviData(dh, files, f, ram)
            fresh == LoadEnviData(NewDataHandler, files, f, ram)
        IN  r.ret => (fresh.ret /\ Observable(r.h) = Observable(fresh.h))

\* C29: reload_from_header of a loaded ENVI handle whose files did not change
\* and that returns True leaves the interleave as it was, also when the file
\* was opened with force_interleave.
C29_ReloadKeepsInterleave ==
    (Op = "reload_from_header" /\ ret[1] /\ ret[3]) => ret[4] = ret[2]

====
